---- MODULE Spec2Model ----
(***************************************************************************)
(* A model of the calculator engine of src/engine.rs: the tokenizer, the   *)
(* recursive-descent parser that evaluates while it parses, the integer    *)
(* helpers (factorial, combinations, permutations) and the engine state    *)
(* (angle mode, display format, Ans, memory, accumulator, history).        *)
(*                                                                         *)
(* Representation.                                                         *)
(*   - An input string is a sequence of characters; a character is a       *)
(*     one-letter string, and the non-ASCII characters of the source are   *)
(*     named: "pi" (U+03C0), "times" (U+00D7), "div" (U+00F7),             *)
(*     "sub2" (U+2082), "minus" (U+2212).                                  *)
(*   - An f64 is a record [k, n, d]: k = "fin" is the rational n/d in      *)
(*     lowest terms with d > 0, k = "inf" is an infinity of sign n,        *)
(*     k = "nan" is NaN, k = "big" is a finite value at or above 2^31      *)
(*     that came from an integer conversion, k = "pim" is the multiple     *)
(*     (n/d) * pi of pi, and k = "opq" is a finite value of a              *)
(*     transcendental function that is not tracked.  Rounding and the      *)
(*     sign of zero are not modelled.  An operator has no case for an      *)
(*     operand whose result the representation cannot tell.                *)
(*   - A u128 is a little-endian sequence of U128Limbs limbs in base       *)
(*     LimbBase; an integer of unbounded size is a limb sequence of any    *)
(*     length.                                                             *)
(*   - The arms of a CASE are read in the order written, the first arm     *)
(*     whose guard holds giving the value, as the source's chains of       *)
(*     if ... continue and match arms do.                                  *)
(*                                                                         *)
(* State.  angle, format, ans, memory, m_plus and history are the fields   *)
(* of CalcEngine.  overflow_checks is the build: TRUE when integer         *)
(* overflow panics (debug), FALSE when it wraps (release).  last_op,       *)
(* last_expr and last_result record the last call, its text and what it    *)
(* returned; log records every successful evaluation since construction;   *)
(* fn_in records what the last input was built from, fn_acc and fn_out the *)
(* integer accumulator and the result of a helper function applied alone.  *)
(***************************************************************************)
EXTENDS Integers, Sequences, FiniteSets, TLC

VARIABLES angle, format, ans, memory, m_plus, history,
          overflow_checks, last_op, last_expr, last_result, log,
          fn_in, fn_acc, fn_out, app

vars == <<angle, format, ans, memory, m_plus, history,
          overflow_checks, last_op, last_expr, last_result, log,
          fn_in, fn_acc, fn_out, app>>

engine_vars == <<angle, format, ans, memory, m_plus, history>>

(* ------------------------------ f64 ----------------------------------- *)

RECURSIVE Gcd(_, _)
Gcd(a, b) == IF b = 0 THEN a ELSE Gcd(b, a % b)

Abs(x) == IF x < 0 THEN -x ELSE x

Sign(x) == IF x < 0 THEN -1 ELSE IF x = 0 THEN 0 ELSE 1

Fin(n, d) ==
    LET s == IF d < 0 THEN -1 ELSE 1
        g == Gcd(Abs(n), Abs(d))
    IN  [k |-> "fin", n |-> (s * n) \div g, d |-> (s * d) \div g]

Num(n) == [k |-> "fin", n |-> n, d |-> 1]

Zero == Num(0)

NaN == [k |-> "nan", n |-> 0, d |-> 1]

Inf(s) == [k |-> "inf", n |-> s, d |-> 1]

Big == [k |-> "big", n |-> 1, d |-> 1]

Opaque == [k |-> "opq", n |-> 0, d |-> 1]

\* (n/d) * pi
Pim(n, d) ==
    LET s == IF d < 0 THEN -1 ELSE 1
        g == Gcd(Abs(n), Abs(d))
    IN  IF n = 0 THEN [k |-> "fin", n |-> 0, d |-> 1]
        ELSE [k |-> "pim", n |-> (s * n) \div g, d |-> (s * d) \div g]

\* std::f64::consts::PI and E
PI == [k |-> "pim", n |-> 1, d |-> 1]

E == [k |-> "opq", n |-> 2, d |-> 1]

is_nan(v) == v.k = "nan"

is_infinite(v) == v.k = "inf"

IsFin(v) == v.k = "fin"

\* v == 0.0
IsZero(v) == v.k = "fin" /\ v.n = 0

\* the sign of a value that is not NaN
SignOf(v) == IF v.k \in {"fin", "inf", "pim"} THEN Sign(v.n) ELSE 1

\* (a.n/a.d) * pi is below (above) the rational b, by 3.1415 < pi < 3.1416
PimBelow(a, b) ==
    IF a.n >= 0 THEN a.n * 31416 * b.d <= b.n * a.d * 10000
    ELSE a.n * 31415 * b.d <= b.n * a.d * 10000

PimAbove(a, b) ==
    IF a.n >= 0 THEN a.n * 31415 * b.d >= b.n * a.d * 10000
    ELSE a.n * 31416 * b.d >= b.n * a.d * 10000

\* a < b on values (false when either is NaN); a "big" value is above every
\* "fin" value of the model
Lt(a, b) ==
    CASE is_nan(a) \/ is_nan(b) -> FALSE
      [] a.k = "fin" /\ b.k = "fin" -> a.n * b.d < b.n * a.d
      [] a.k = "inf" /\ b.k = "inf" -> a.n < b.n
      [] a.k = "inf" -> a.n < 0
      [] b.k = "inf" -> b.n > 0
      [] a.k = "fin" /\ b.k = "big" -> TRUE
      [] a.k = "big" /\ b.k = "fin" -> FALSE
      [] a.k = "pim" /\ b.k = "pim" -> a.n * b.d < b.n * a.d
      [] a.k = "pim" /\ b.k = "fin" /\ PimBelow(a, b) -> TRUE
      [] a.k = "pim" /\ b.k = "fin" /\ PimAbove(a, b) -> FALSE
      [] a.k = "fin" /\ b.k = "pim" /\ PimAbove(b, a) -> TRUE
      [] a.k = "fin" /\ b.k = "pim" /\ PimBelow(b, a) -> FALSE
      [] a = E /\ b.k = "fin" -> b.n > 2 * b.d
      [] a.k = "fin" /\ b = E -> a.n <= 2 * a.d

Le(a, b) == Lt(a, b) \/ (~is_nan(a) /\ a = b)

FNeg(v) ==
    CASE v.k = "fin" -> Fin(-v.n, v.d)
      [] v.k = "pim" -> Pim(-v.n, v.d)
      [] v.k = "inf" -> Inf(-v.n)
      [] OTHER -> v

FAbs(v) ==
    CASE v.k = "fin" -> Fin(Abs(v.n), v.d)
      [] v.k = "pim" -> Pim(Abs(v.n), v.d)
      [] v.k = "inf" -> Inf(1)
      [] v.k \in {"nan", "big"} \/ v = E -> v

FAdd(a, b) ==
    CASE is_nan(a) \/ is_nan(b) -> NaN
      [] a.k = "inf" /\ b.k = "inf" -> IF a.n = b.n THEN a ELSE NaN
      [] a.k = "inf" -> a
      [] b.k = "inf" -> b
      [] a.k = "fin" /\ b.k = "fin" -> Fin(a.n * b.d + b.n * a.d, a.d * b.d)
      [] a.k = "pim" /\ b.k = "pim" -> Pim(a.n * b.d + b.n * a.d, a.d * b.d)
      [] IsZero(a) -> b
      [] IsZero(b) -> a
      [] OTHER -> Opaque

FSub(a, b) == FAdd(a, FNeg(b))

FMul(a, b) ==
    CASE is_nan(a) \/ is_nan(b) -> NaN
      [] a.k = "inf" \/ b.k = "inf" ->
            IF IsZero(a) \/ IsZero(b) THEN NaN ELSE Inf(SignOf(a) * SignOf(b))
      [] a.k = "fin" /\ b.k = "fin" -> Fin(a.n * b.n, a.d * b.d)
      [] a.k = "pim" /\ b.k = "fin" -> Pim(a.n * b.n, a.d * b.d)
      [] a.k = "fin" /\ b.k = "pim" -> Pim(a.n * b.n, a.d * b.d)
      [] IsZero(a) \/ IsZero(b) -> Zero
      [] a = Num(1) -> b
      [] b = Num(1) -> a
      [] OTHER -> Opaque

FDiv(a, b) ==
    CASE is_nan(a) \/ is_nan(b) -> NaN
      [] a.k = "inf" /\ b.k = "inf" -> NaN
      [] a.k = "inf" -> Inf(a.n * (IF SignOf(b) < 0 THEN -1 ELSE 1))
      [] b.k = "inf" -> Zero
      [] IsZero(b) -> IF IsZero(a) THEN NaN ELSE Inf(SignOf(a))
      [] a.k = "fin" /\ b.k = "fin" -> Fin(a.n * b.d, a.d * b.n)
      [] a.k = "pim" /\ b.k = "fin" -> Pim(a.n * b.d, a.d * b.n)
      [] a.k = "pim" /\ b.k = "pim" -> Fin(a.n * b.d, a.d * b.n)
      [] IsZero(a) -> Zero
      [] b = Num(1) -> a
      [] OTHER -> Opaque

\* v.trunc()
Trunc(v) ==
    IF v.k = "fin"
    THEN Num(Sign(v.n) * (Abs(v.n) \div v.d))
    ELSE v

IsIntegral(v) == v.k = "fin" /\ v.d = 1

RECURSIVE IPow(_, _)
IPow(b, e) == IF e = 0 THEN 1 ELSE b * IPow(b, e - 1)

\* the integer square root of a perfect square, -1 otherwise
ISqrt(n) ==
    IF n >= 0 /\ \E r \in 0..n : r * r = n
    THEN CHOOSE r \in 0..n : r * r = n
    ELSE -1

\* base.powf(exp), following C's pow
powf(base, exp) ==
    CASE IsZero(exp) -> Num(1)
      [] base = Num(1) -> Num(1)
      [] is_nan(base) \/ is_nan(exp) -> NaN
      [] exp.k = "inf" ->
            IF base.k = "fin" /\ Abs(base.n) = base.d THEN Num(1)
            ELSE IF (base.k = "fin" /\ Abs(base.n) < base.d) = (exp.n > 0)
                 THEN Zero ELSE Inf(1)
      [] base.k = "inf" ->
            IF SignOf(exp) < 0 THEN Zero
            ELSE IF base.n < 0 /\ IsIntegral(exp) /\ exp.n % 2 = 1
                 THEN Inf(-1) ELSE Inf(1)
      [] base.k = "fin" /\ IsIntegral(exp) ->
            IF exp.n > 0
            THEN Fin(IPow(base.n, exp.n), IPow(base.d, exp.n))
            ELSE IF base.n = 0 THEN Inf(1)
                 ELSE Fin(IPow(base.d, -exp.n), IPow(base.n, -exp.n))
      [] base.k = "fin" /\ exp.k = "fin" ->
            IF base.n < 0 THEN NaN
            ELSE IF base.n = 0 THEN (IF exp.n > 0 THEN Zero ELSE Inf(1))
            ELSE IF exp = Fin(1, 2) /\ ISqrt(base.n) >= 0 /\ ISqrt(base.d) >= 0
                 THEN Fin(ISqrt(base.n), ISqrt(base.d))
                 ELSE Opaque
      [] base.k = "fin" /\ base.n > 0 /\ (exp.k = "pim" \/ exp = E) -> Opaque
      [] ((base.k = "pim" /\ base.n > 0) \/ base = E) /\ exp.k \in {"fin", "pim"} -> Opaque

(* --------------------------- results ---------------------------------- *)

\* Result<f64, String>; a panic of the process is the third outcome
Ok(v) == [kind |-> "ok", val |-> v, msg |-> ""]

Err(m) == [kind |-> "err", val |-> Zero, msg |-> m]

Panic == [kind |-> "panic", val |-> Zero, msg |-> "attempt to multiply with overflow"]

NoResult == [kind |-> "none", val |-> Zero, msg |-> ""]

(* ----------------------------- tokens ---------------------------------- *)

\* enum Token: Number carries v, Func carries name
Tok(t) == [t |-> t, v |-> Zero, name |-> ""]

TNumber(v) == [t |-> "Number", v |-> v, name |-> ""]

TFunc(name) == [t |-> "Func", v |-> Zero, name |-> name]

Digits == <<"0", "1", "2", "3", "4", "5", "6", "7", "8", "9">>

is_ascii_digit(c) == \E j \in 1..10 : Digits[j] = c

DigitVal(c) == (CHOOSE j \in 1..10 : Digits[j] = c) - 1

AsciiLetters ==
    {"a", "b", "c", "d", "e", "f", "g", "h", "i", "j", "k", "l", "m",
     "n", "o", "p", "q", "r", "s", "t", "u", "v", "w", "x", "y", "z",
     "A", "B", "C", "D", "E", "F", "G", "H", "I", "J", "K", "L", "M",
     "N", "O", "P", "Q", "R", "S", "T", "U", "V", "W", "X", "Y", "Z"}

\* char::is_alphanumeric: pi is a letter and the subscript two a number
is_alphanumeric(c) == c \in AsciiLetters \/ is_ascii_digit(c) \/ c \in {"pi", "sub2"}

\* the UTF-8 length of a character
utf8_len(c) ==
    CASE c \in {"pi", "times", "div"} -> 2
      [] c \in {"sub2", "minus"} -> 3
      [] OTHER -> 1

RECURSIVE str_len(_)
str_len(s) == IF s = <<>> THEN 0 ELSE utf8_len(Head(s)) + str_len(Tail(s))

\* the known function names, in the order of the source
funcs ==
    << [name |-> "asinh", chars |-> <<"a", "s", "i", "n", "h">>],
       [name |-> "acosh", chars |-> <<"a", "c", "o", "s", "h">>],
       [name |-> "atanh", chars |-> <<"a", "t", "a", "n", "h">>],
       [name |-> "asin",  chars |-> <<"a", "s", "i", "n">>],
       [name |-> "acos",  chars |-> <<"a", "c", "o", "s">>],
       [name |-> "atan",  chars |-> <<"a", "t", "a", "n">>],
       [name |-> "sinh",  chars |-> <<"s", "i", "n", "h">>],
       [name |-> "cosh",  chars |-> <<"c", "o", "s", "h">>],
       [name |-> "tanh",  chars |-> <<"t", "a", "n", "h">>],
       [name |-> "sin",   chars |-> <<"s", "i", "n">>],
       [name |-> "cos",   chars |-> <<"c", "o", "s">>],
       [name |-> "tan",   chars |-> <<"t", "a", "n">>],
       [name |-> "log2",  chars |-> <<"l", "o", "g", "sub2">>],
       [name |-> "log",   chars |-> <<"l", "o", "g">>],
       [name |-> "ln",    chars |-> <<"l", "n">>],
       [name |-> "sqrt",  chars |-> <<"s", "q", "r", "t">>],
       [name |-> "cbrt",  chars |-> <<"c", "b", "r", "t">>],
       [name |-> "abs",   chars |-> <<"a", "b", "s">>],
       [name |-> "exp",   chars |-> <<"e", "x", "p">>],
       [name |-> "nCr",   chars |-> <<"n", "C", "r">>],
       [name |-> "nPr",   chars |-> <<"n", "P", "r">>],
       [name |-> "Rec",   chars |-> <<"R", "e", "c">>],
       [name |-> "Pol",   chars |-> <<"P", "o", "l">>] >>

\* chars[i..] starts with the characters of name (i counts from 0)
starts_with(chars, i, name) ==
    /\ i + Len(name) <= Len(chars)
    /\ \A j \in 1..Len(name) : chars[i + j] = name[j]

last_or(later, here) == IF later # 0 THEN later ELSE here

\* first_func_from without the break: the last name that matches wins
RECURSIVE first_func_from_no_break(_, _, _)
first_func_from_no_break(chars, i, j) ==
    IF j > Len(funcs) THEN 0
    ELSE last_or(first_func_from_no_break(chars, i, j + 1),
                 IF starts_with(chars, i, funcs[j].chars) THEN j ELSE 0)

\* for &fn_name in &funcs { if rest.starts_with(fn_name) { ...; break; } } from
\* the j-th name on: the index of the first name that matches at i, 0 when
\* none does
RECURSIVE first_func_from(_, _, _)
first_func_from(chars, i, j) ==
    IF j > Len(funcs) THEN 0
    ELSE IF starts_with(chars, i, funcs[j].chars) THEN j
    ELSE first_func_from(chars, i, j + 1)

first_func(chars, i) == first_func_from(chars, i, 1)

\* the end of the run of characters from i on that satisfy the number's
\* mantissa test (digit or dot)
RECURSIVE scan_mantissa(_, _)
scan_mantissa(chars, i) ==
    IF i < Len(chars) /\ (is_ascii_digit(chars[i + 1]) \/ chars[i + 1] = ".")
    THEN scan_mantissa(chars, i + 1)
    ELSE i

RECURSIVE scan_digits(_, _)
scan_digits(chars, i) ==
    IF i < Len(chars) /\ is_ascii_digit(chars[i + 1])
    THEN scan_digits(chars, i + 1)
    ELSE i

\* the end of the optional exponent that starts at i
scan_exponent(chars, i) ==
    IF i < Len(chars) /\ chars[i + 1] \in {"e", "E"}
    THEN LET i1 == i + 1
             i2 == IF i1 < Len(chars) /\ chars[i1 + 1] \in {"+", "-"}
                   THEN i1 + 1 ELSE i1
         IN  scan_digits(chars, i2)
    ELSE i

\* the digits of s read as a decimal integer
RECURSIVE digits_value(_, _)
digits_value(s, acc) ==
    IF s = <<>> THEN acc
    ELSE digits_value(Tail(s), IF is_ascii_digit(Head(s))
                               THEN acc * 10 + DigitVal(Head(s)) ELSE acc)

count_of(s, c) == Cardinality({j \in 1..Len(s) : s[j] = c})

index_of(s, c) == CHOOSE j \in 1..Len(s) : s[j] = c /\ \A h \in 1..(j - 1) : s[h] # c

\* s.parse::<f64>() on the captured substring: Err for no digit in the
\* mantissa, two dots, or an exponent marker without digits
parse_f64(s) ==
    LET hasE  == \E j \in 1..Len(s) : s[j] \in {"e", "E"}
        epos  == IF hasE THEN CHOOSE j \in 1..Len(s) : s[j] \in {"e", "E"}
                 ELSE Len(s) + 1
        mant  == SubSeq(s, 1, epos - 1)
        expo  == SubSeq(s, epos + 1, Len(s))
        eneg  == expo # <<>> /\ Head(expo) = "-"
        edig  == IF expo # <<>> /\ Head(expo) \in {"+", "-"} THEN Tail(expo) ELSE expo
        ndig  == Cardinality({j \in 1..Len(mant) : is_ascii_digit(mant[j])})
        frac  == IF count_of(mant, ".") = 1 THEN Len(mant) - index_of(mant, ".") ELSE 0
        m     == Fin(digits_value(mant, 0), IPow(10, frac))
        e     == digits_value(edig, 0)
    IN  IF ndig = 0 \/ count_of(mant, ".") > 1 \/ (hasE /\ edig = <<>>)
        THEN Err("Bad number")
        ELSE Ok(IF eneg THEN FDiv(m, Num(IPow(10, e))) ELSE FMul(m, Num(IPow(10, e))))

MemoryVars == {"A", "B", "C", "D", "E", "F", "X", "Y", "M"}

\* to_ascii_uppercase that leaves every character as it is
to_ascii_uppercase_none(c) == c

to_ascii_uppercase(c) == IF c = "m" THEN "M" ELSE c

\* memory.get(&key).unwrap_or(&0.0)
mem_get(mem, key) == IF key \in DOMAIN mem THEN mem[key] ELSE Zero

\* the token of a single operator or punctuation character, "" when unknown
punct(c) ==
    CASE c = "+" -> "Plus"
      [] c = "-" -> "Minus"
      [] c \in {"*", "times"} -> "Mul"
      [] c \in {"/", "div"} -> "Div"
      [] c = "^" -> "Pow"
      [] c = "(" -> "LParen"
      [] c = ")" -> "RParen"
      [] c = "," -> "Comma"
      [] c = "!" -> "Factorial"
      [] c = "%" -> "Percent"
      [] OTHER -> ""

TokOk(tokens) == [kind |-> "ok", tokens |-> tokens, msg |-> ""]

TokErr(m) == [kind |-> "err", tokens |-> <<>>, msg |-> m]

\* the byte length the cursor advances by after a function name
func_advance(f) == str_len(f.chars)

\* the tokenizer between two iterations: the cursor and the tokens pushed
Cursor(i, tokens) == [kind |-> "ok", i |-> i, tokens |-> tokens, msg |-> ""]

\* the tokenizer after an iteration that returned Err(m)
CursorErr(i, m) == [kind |-> "err", i |-> i, tokens |-> <<>>, msg |-> m]

\* one iteration of the while loop of tokenize, entered with i < chars.len()
tokenize_iteration(chars, i, tokens, a, mem) ==
    LET c == chars[i + 1]
        next_alnum == i + 1 < Len(chars) /\ is_alphanumeric(chars[i + 2])
        fi == first_func(chars, i)
    IN
    CASE c = " " -> Cursor(i + 1, tokens)
      [] is_ascii_digit(c) \/ c = "." ->
            LET i2 == scan_exponent(chars, scan_mantissa(chars, i))
                v  == parse_f64(SubSeq(chars, i + 1, i2))
            IN  IF v.kind = "err" THEN CursorErr(i2, v.msg)
                ELSE Cursor(i2, Append(tokens, TNumber(v.val)))
      [] starts_with(chars, i, <<"A", "n", "s">>) ->
            Cursor(i + 3, Append(tokens, TNumber(a)))
      [] c = "pi" ->
            Cursor(i + 1, Append(tokens, TNumber(PI)))
      [] c = "e" /\ ~next_alnum ->
            Cursor(i + 1, Append(tokens, TNumber(E)))
      [] c \in (MemoryVars \cup {"m"}) /\ ~next_alnum ->
            Cursor(i + 1,
                   Append(tokens, TNumber(mem_get(mem, to_ascii_uppercase(c)))))
      [] fi # 0 ->
            Cursor(i + func_advance(funcs[fi]), Append(tokens, TFunc(funcs[fi].name)))
      [] punct(c) # "" ->
            Cursor(i + 1, Append(tokens, Tok(punct(c))))
      [] OTHER -> CursorErr(i, "Unknown character")

\* the while loop of tokenize from cursor i with the tokens pushed so far
RECURSIVE tokenize_loop(_, _, _, _, _), tokenize_continue(_, _, _, _)
tokenize_loop(chars, i, tokens, a, mem) ==
    IF ~(i < Len(chars)) THEN TokOk(tokens)
    ELSE tokenize_continue(chars, tokenize_iteration(chars, i, tokens, a, mem), a, mem)

tokenize_continue(chars, s, a, mem) ==
    IF s.kind = "err" THEN TokErr(s.msg)
    ELSE tokenize_loop(chars, s.i, s.tokens, a, mem)

tokenize(input, a, mem) == tokenize_loop(input, 0, <<>>, a, mem)

(* ------------------------- u128 and helpers ---------------------------- *)

LimbBase == 256 * 256

U128Limbs == 128 \div 16

\* drop the high limbs that are zero
RECURSIVE Normalize(_)
Normalize(x) ==
    IF x # <<>> /\ x[Len(x)] = 0 THEN Normalize(SubSeq(x, 1, Len(x) - 1)) ELSE x

\* x * m + carry for a limb sequence x and 0 <= m < 2^15, of unbounded size
RECURSIVE BigMulCarry(_, _, _)
BigMulCarry(x, m, carry) ==
    IF x = <<>>
    THEN (IF carry = 0 THEN <<>> ELSE <<carry>>)
    ELSE LET p == Head(x) * m + carry
         IN  <<p % LimbBase>> \o BigMulCarry(Tail(x), m, p \div LimbBase)

BigMul(x, m) == Normalize(BigMulCarry(x, m, 0))

\* x / m for a limb sequence x, from the high limb down: quotient and remainder
RECURSIVE BigDivRem(_, _, _)
BigDivRem(x, m, rem) ==
    IF x = <<>>
    THEN [q |-> <<>>, r |-> rem]
    ELSE LET cur  == rem * LimbBase + x[Len(x)]
             rest == BigDivRem(SubSeq(x, 1, Len(x) - 1), m, cur % m)
         IN  [q |-> Append(rest.q, cur \div m), r |-> rest.r]

BigOfInt(n) == Normalize(<<n % LimbBase, n \div LimbBase>>)

\* a * b on u128: the wrapped product and whether it overflowed
u128_mul(a, b) ==
    LET p == BigMul(a, b)
    IN  [limbs |-> Normalize(SubSeq(p, 1, IF Len(p) > U128Limbs THEN U128Limbs ELSE Len(p))),
         ovf   |-> Len(p) > U128Limbs]

\* a / b on u128 and whether the division left no remainder
u128_div(a, b) ==
    LET d == BigDivRem(a, b, 0)
    IN  [limbs |-> Normalize(d.q), exact |-> d.r = 0]

\* (x: u128) as f64
u128_to_f64(x) ==
    CASE Len(x) = 0 -> Zero
      [] Len(x) = 1 -> Num(x[1])
      [] Len(x) = 2 /\ x[2] < LimbBase \div 2 -> Num(x[1] + LimbBase * x[2])
      [] OTHER -> Big

\* (v: f64) as u64 saturates: NaN and negative values give 0
to_u64(v) ==
    CASE v.k = "nan" -> 0
      [] v.k = "fin" -> IF v.n < 0 THEN 0 ELSE v.n \div v.d
      [] v.k = "inf" /\ v.n < 0 -> 0
      [] v.k = "pim" -> IF v.n < 0 THEN 0 ELSE (v.n * 31415) \div (v.d * 10000)
      [] v = E -> 2

FactorialMax == 69

\* n != n.trunc()
ne_trunc(n) ==
    CASE n.k = "nan" -> TRUE
      [] n.k = "fin" -> n.d # 1
      [] n.k \in {"inf", "big"} -> FALSE
      [] n.k = "pim" \/ n = E -> TRUE

\* the guard of factorial: n < 0.0 || n != n.trunc() || n > 69.0
factorial_rejects(n) == Lt(n, Zero) \/ ne_trunc(n) \/ Lt(Num(FactorialMax), n)

\* what an arithmetic overflow of the accumulator does to the call: a panic
\* with overflow checks, the wrapped value without
on_overflow(ovf, checks, value) == IF ovf /\ checks THEN Panic ELSE Ok(value)

\* result *= i as u128, with the overflow remembered
factorial_step(acc, i) ==
    LET m == u128_mul(acc.limbs, i)
    IN  [ovf |-> acc.ovf \/ m.ovf, limbs |-> m.limbs]

\* the accumulator `result` after the iterations lo..=hi of
\* for i in 2..=(n as u64) { result *= i as u128; } started from acc; the
\* range is halved to keep the evaluation shallow, and with overflow checks
\* the loop ends at the first overflow
RECURSIVE factorial_loop(_, _, _, _)
factorial_loop(acc, lo, hi, checks) ==
    IF lo > hi THEN acc
    ELSE IF lo = hi THEN factorial_step(acc, lo)
    ELSE LET mid  == (lo + hi) \div 2
             left == factorial_loop(acc, lo, mid, checks)
         IN  IF left.ovf /\ checks THEN left
             ELSE factorial_loop(left, mid + 1, hi, checks)

\* the accumulator `result` of factorial when its loop ends
factorial_acc(n, checks) ==
    factorial_loop([ovf |-> FALSE, limbs |-> <<1>>], 2, to_u64(n), checks)

factorial(n, checks) ==
    IF factorial_rejects(n) THEN Err("Math ERROR")
    ELSE LET acc == factorial_acc(n, checks)
         IN  on_overflow(acc.ovf, checks, u128_to_f64(acc.limbs))

Min(a, b) == IF a < b THEN a ELSE b

\* combinations_step with the division done before the multiplication
combinations_step_divide_first(acc, n, i) ==
    LET q == u128_div(acc.limbs, i + 1)
        m == u128_mul(q.limbs, n - i)
    IN  [ovf |-> acc.ovf \/ m.ovf, exact |-> acc.exact /\ q.exact, limbs |-> m.limbs]

\* result = result * (n - i) as u128 / (i + 1) as u128
combinations_step(acc, n, i) ==
    LET m == u128_mul(acc.limbs, n - i)
        q == u128_div(m.limbs, i + 1)
    IN  [ovf |-> acc.ovf \/ m.ovf, exact |-> acc.exact /\ q.exact, limbs |-> q.limbs]

\* the accumulator `result` after the iterations 0..r of for i in 0..r
RECURSIVE combinations_loop(_, _)
combinations_loop(r, n) ==
    IF r <= 0 THEN [limbs |-> <<1>>, ovf |-> FALSE, exact |-> TRUE]
    ELSE combinations_step(combinations_loop(r - 1, n), n, r - 1)

\* combinations(n, r) for r <= n: the accumulator when the function returns
combinations(n, r) ==
    IF r = 0 \/ r = n
    THEN [limbs |-> <<1>>, ovf |-> FALSE, exact |-> TRUE]
    ELSE combinations_loop(Min(r, n - r), n)

\* the accumulator `result` after the iterations 0..r of for i in 0..r
RECURSIVE permutations_loop(_, _)
permutations_loop(r, n) ==
    IF r <= 0 THEN [limbs |-> <<1>>, ovf |-> FALSE]
    ELSE LET acc == permutations_loop(r - 1, n)
             m   == u128_mul(acc.limbs, n - (r - 1))
         IN  [ovf |-> acc.ovf \/ m.ovf, limbs |-> m.limbs]

permutations(n, r) ==
    IF r = 0 THEN [limbs |-> <<1>>, ovf |-> FALSE]
    ELSE permutations_loop(r, n)

\* the guard of nCr and nPr: r > n
r_exceeds_n(n, r) == r > n

apply_two_arg_func(name, a, b, checks) ==
    CASE name = "nCr" ->
            LET n == to_u64(a)
                r == to_u64(b)
            IN  IF r_exceeds_n(n, r) THEN Err("Math ERROR")
                ELSE LET c == combinations(n, r)
                     IN  on_overflow(c.ovf, checks, u128_to_f64(c.limbs))
      [] name = "nPr" ->
            LET n == to_u64(a)
                r == to_u64(b)
            IN  IF r_exceeds_n(n, r) THEN Err("Math ERROR")
                ELSE LET c == permutations(n, r)
                     IN  on_overflow(c.ovf, checks, u128_to_f64(c.limbs))
      [] name = "Rec" ->
            Ok(IF IsZero(a) THEN Zero ELSE IF IsZero(b) THEN a ELSE Opaque)
      [] name = "Pol" ->
            LET s == FAdd(FMul(a, a), FMul(b, b))
            IN  Ok(IF s.k = "fin" /\ ISqrt(s.n) >= 0 /\ ISqrt(s.d) >= 0
                   THEN Fin(ISqrt(s.n), ISqrt(s.d))
                   ELSE IF s.k = "inf" THEN s ELSE IF s.k = "nan" THEN s ELSE Opaque)
      [] OTHER -> Err("Unknown 2-arg function")

(* ------------------------------ angles --------------------------------- *)

AngleModes == {"Degrees", "Radians", "Gradians"}

to_rad(mode, v) ==
    CASE mode = "Degrees"  -> FDiv(FMul(v, PI), Num(180))
      [] mode = "Radians"  -> v
      [] mode = "Gradians" -> FDiv(FMul(v, PI), Num(200))

\* from_rad that returns radians in every mode
from_rad_in_radians(mode, v) == v

from_rad(mode, v) ==
    CASE mode = "Degrees"  -> FDiv(FMul(v, Num(180)), PI)
      [] mode = "Radians"  -> v
      [] mode = "Gradians" -> FDiv(FMul(v, Num(200)), PI)

(* ----------------------- one-argument functions ------------------------ *)

\* the value of a transcendental function at arg: NaN at NaN, the exact
\* value when the representation has it, and an untracked finite value at
\* the other finite arguments
Transc(arg, known, exact) ==
    CASE arg.k = "nan" -> NaN
      [] known -> exact
      [] arg.k \in {"fin", "pim", "opq"} -> Opaque

\* the fraction of a turn of pi, in 0 <= q < 2, of a multiple of pi
TurnNum(r) == (r.n % (2 * r.d))

\* r.cos() for r a multiple of pi by a multiple of 1/2, or 0
cos_known(r) == IsZero(r) \/ (r.k = "pim" /\ r.d \in {1, 2})

cos_exact(r) ==
    IF IsZero(r) THEN Num(1)
    ELSE IF r.d = 2 THEN Zero
    ELSE IF TurnNum(r) = 0 THEN Num(1) ELSE Num(-1)

sin_known(r) == IsZero(r) \/ (r.k = "pim" /\ r.d \in {1, 2})

sin_exact(r) ==
    IF IsZero(r) \/ r.d = 1 THEN Zero
    ELSE IF TurnNum(r) = 1 THEN Num(1) ELSE Num(-1)

\* (r.cos()).abs() < 1e-12: at the odd multiples of pi/2; no other argument
\* of the representation comes that close
tan_undefined(r) == r.k = "pim" /\ r.d = 2

tan_known(r) == IsZero(r) \/ (r.k = "pim" /\ r.d = 1) \/ (r.k = "pim" /\ r.d = 4)

tan_exact(r) ==
    IF IsZero(r) \/ r.d = 1 THEN Zero
    ELSE IF (r.n % 4) = 1 THEN Num(1) ELSE Num(-1)

asin_exact(arg) == Pim(arg.n, 2)

acos_exact(arg) == Pim(1 - arg.n, 2)

IsUnit(arg) == arg.k = "fin" /\ arg.d = 1 /\ arg.n \in {-1, 0, 1}

\* the exponent e with b^e = n, -1 when n is no power of b
RECURSIVE ILogFrom(_, _, _, _)
ILogFrom(b, n, e, p) ==
    IF p = n THEN e
    ELSE IF p > n THEN -1
    ELSE ILogFrom(b, n, e + 1, p * b)

ILog(b, n) == IF n >= 1 THEN ILogFrom(b, n, 0, 1) ELSE -1

log_known(b, arg) == arg.k = "fin" /\ arg.d = 1 /\ arg.n >= 1 /\ arg.n <= 1024 /\ ILog(b, arg.n) >= 0

log_exact(b, arg) == Num(ILog(b, arg.n))

sqrt_known(arg) == arg.k = "fin" /\ ISqrt(arg.n) >= 0 /\ ISqrt(arg.d) >= 0

sqrt_exact(arg) == Fin(ISqrt(arg.n), ISqrt(arg.d))

ICbrt(n) ==
    IF \E r \in 0..Abs(n) : r * r * r = Abs(n)
    THEN Sign(n) * (CHOOSE r \in 0..Abs(n) : r * r * r = Abs(n))
    ELSE 0

cbrt_known(arg) == arg.k = "fin" /\ arg.d = 1 /\ (arg.n = 0 \/ ICbrt(arg.n) # 0)

cbrt_exact(arg) == Num(ICbrt(arg.n))

apply_func(mode, name, arg) ==
    LET r == to_rad(mode, arg)
    IN
    CASE name = "sin" -> Ok(Transc(r, sin_known(r), sin_exact(r)))
      [] name = "cos" -> Ok(Transc(r, cos_known(r), cos_exact(r)))
      [] name = "tan" ->
            IF tan_undefined(r) THEN Err("Math ERROR (tan undef)")
            ELSE Ok(Transc(r, tan_known(r), tan_exact(r)))
      [] name = "asin" ->
            IF Lt(Num(1), FAbs(arg)) THEN Err("Math ERROR")
            ELSE Ok(from_rad(mode, Transc(arg, IsUnit(arg), asin_exact(arg))))
      [] name = "acos" ->
            IF Lt(Num(1), FAbs(arg)) THEN Err("Math ERROR")
            ELSE Ok(from_rad(mode, Transc(arg, IsUnit(arg), acos_exact(arg))))
      [] name = "atan" ->
            Ok(from_rad(mode, Transc(arg, IsUnit(arg), Pim(arg.n, 4))))
      [] name = "sinh" -> Ok(Transc(arg, IsZero(arg), Zero))
      [] name = "cosh" -> Ok(Transc(arg, IsZero(arg), Num(1)))
      [] name = "tanh" -> Ok(Transc(arg, IsZero(arg), Zero))
      [] name = "asinh" -> Ok(Transc(arg, IsZero(arg), Zero))
      [] name = "acosh" ->
            IF Lt(arg, Num(1)) THEN Err("Math ERROR")
            ELSE Ok(Transc(arg, arg = Num(1), Zero))
      [] name = "atanh" ->
            IF Le(Num(1), FAbs(arg)) THEN Err("Math ERROR")
            ELSE Ok(Transc(arg, IsZero(arg), Zero))
      [] name = "log" ->
            IF Le(arg, Zero) THEN Err("Math ERROR")
            ELSE Ok(Transc(arg, log_known(10, arg), log_exact(10, arg)))
      [] name = "log2" ->
            IF Le(arg, Zero) THEN Err("Math ERROR")
            ELSE Ok(Transc(arg, log_known(2, arg), log_exact(2, arg)))
      [] name = "ln" ->
            IF Le(arg, Zero) THEN Err("Math ERROR")
            ELSE Ok(Transc(arg, arg = Num(1) \/ arg = E, IF arg = E THEN Num(1) ELSE Zero))
      [] name = "sqrt" ->
            IF Lt(arg, Zero) THEN Err("Math ERROR")
            ELSE Ok(Transc(arg, sqrt_known(arg), sqrt_exact(arg)))
      [] name = "cbrt" -> Ok(Transc(arg, cbrt_known(arg), cbrt_exact(arg)))
      [] name = "abs" -> Ok(FAbs(arg))
      [] name = "exp" -> Ok(Transc(arg, IsZero(arg) \/ arg = Num(1), IF IsZero(arg) THEN Num(1) ELSE E))
      [] OTHER -> Err("Unknown function")

(* ------------------------------ parser --------------------------------- *)

\* struct Parser, with the build's overflow checking carried along and the
\* number of calls of next made so far
NewParser(tokens, mode, checks) ==
    [tokens |-> tokens, pos |-> 0, angle |-> mode, checks |-> checks, nexts |-> 0]

\* self.peek() is Some(token of kind t)
peek_is(p, t) == p.pos < Len(p.tokens) /\ p.tokens[p.pos + 1].t = t

\* the parser after self.next(); nexts counts the calls of next
advance(p) ==
    IF p.pos < Len(p.tokens)
    THEN [p EXCEPT !.pos = p.pos + 1, !.nexts = p.nexts + 1]
    ELSE [p EXCEPT !.nexts = p.nexts + 1]

\* if self.peek() == Some(&t) { self.next(); }
eat(p, t) == IF peek_is(p, t) THEN advance(p) ELSE p

PR(res, p) == [res |-> res, p |-> p]

\* primary_paren that fails when the closing parenthesis is missing
primary_paren_strict(v) ==
    IF v.res.kind # "ok" THEN v
    ELSE IF peek_is(v.p, "RParen") THEN PR(v.res, advance(v.p))
    ELSE PR(Err("Unexpected token"), v.p)

TwoArgFuncs == {"nCr", "nPr", "Rec", "Pol"}

IsOk(r) == r.res.kind = "ok"

\* Each call of a parsing function is written once, as the argument of the
\* operator that continues with its result.
RECURSIVE parse_expr(_), parse_add_sub(_), add_sub_start(_), add_sub_loop(_, _),
          add_sub_fold(_, _, _), parse_mul_div(_), mul_div_start(_),
          mul_div_loop(_, _), mul_div_fold(_, _, _), parse_power(_), power_base(_),
          power_exp(_, _), parse_postfix(_), postfix_start(_), postfix_loop(_, _),
          postfix_fold(_, _), parse_unary(_), unary_sign(_, _), parse_primary(_),
          primary_paren(_), primary_func(_, _, _), primary_func2(_, _, _, _)

parse_expr(p) == parse_add_sub(p)

\* let mut left = self.parse_mul_div()?;
parse_add_sub(p) == add_sub_start(parse_mul_div(p))

add_sub_start(l) == IF ~IsOk(l) THEN l ELSE add_sub_loop(l.res.val, l.p)

\* add_sub_loop with the right operand parsed as a whole sum, which groups
\* + and - from the right
add_sub_loop_right(left, p) ==
    IF peek_is(p, "Plus") \/ peek_is(p, "Minus")
    THEN add_sub_fold(left, p, parse_add_sub(advance(p)))
    ELSE PR(Ok(left), p)

\* loop { match self.peek() { Some(Plus) | Some(Minus) => ..., _ => break } } Ok(left)
add_sub_loop(left, p) ==
    IF peek_is(p, "Plus") \/ peek_is(p, "Minus")
    THEN add_sub_fold(left, p, parse_mul_div(advance(p)))
    ELSE PR(Ok(left), p)

\* left += r or left -= r by the operator at p, r the operand parsed after it
add_sub_fold(left, p, r) ==
    IF ~IsOk(r) THEN r
    ELSE add_sub_loop(IF peek_is(p, "Plus")
                      THEN FAdd(left, r.res.val)
                      ELSE FSub(left, r.res.val), r.p)

\* let mut left = self.parse_power()?;
parse_mul_div(p) == mul_div_start(parse_power(p))

mul_div_start(l) == IF ~IsOk(l) THEN l ELSE mul_div_loop(l.res.val, l.p)

\* loop { match self.peek() { Some(Mul) | Some(Div) => ..., _ => break } } Ok(left)
mul_div_loop(left, p) ==
    IF peek_is(p, "Mul") \/ peek_is(p, "Div")
    THEN mul_div_fold(left, p, parse_power(advance(p)))
    ELSE PR(Ok(left), p)

\* left *= r, or for Div: if r == 0.0 { return Err(div/0) } left /= r
mul_div_fold(left, p, r) ==
    IF ~IsOk(r) THEN r
    ELSE IF peek_is(p, "Mul") THEN mul_div_loop(FMul(left, r.res.val), r.p)
    ELSE IF IsZero(r.res.val) THEN PR(Err("Math ERROR (div/0)"), r.p)
    ELSE mul_div_loop(FDiv(left, r.res.val), r.p)

\* let base = self.parse_postfix()?;
parse_power(p) == power_base(parse_postfix(p))

\* if self.peek() == Some(&Token::Pow) { self.next(); let exp = self.parse_unary()?; ... }
power_base(b) ==
    IF ~IsOk(b) THEN b
    ELSE IF peek_is(b.p, "Pow") THEN power_exp(b, parse_unary(advance(b.p)))
    ELSE b

\* return Ok(base.powf(exp))
power_exp(b, e) ==
    IF ~IsOk(e) THEN e ELSE PR(Ok(powf(b.res.val, e.res.val)), e.p)

\* let mut val = self.parse_unary()?;
parse_postfix(p) == postfix_start(parse_unary(p))

postfix_start(u) == IF ~IsOk(u) THEN u ELSE postfix_loop(u.res.val, u.p)

\* loop { match self.peek() { Some(Factorial) => ..., Some(Percent) => ..., _ => break } }
postfix_loop(val, p) ==
    IF peek_is(p, "Factorial")
    THEN postfix_fold(factorial(val, p.checks), advance(p))
    ELSE IF peek_is(p, "Percent")
    THEN postfix_loop(FDiv(val, Num(100)), advance(p))
    ELSE PR(Ok(val), p)

\* val = factorial(val)?;
postfix_fold(f, p) == IF f.kind # "ok" THEN PR(f, p) ELSE postfix_loop(f.val, p)

\* parse_unary with the sign applied to a whole power, not to a primary
parse_unary_of_power(p) ==
    IF peek_is(p, "Minus") \/ peek_is(p, "Plus")
    THEN unary_sign(p, parse_power(advance(p)))
    ELSE parse_primary(p)

\* match self.peek() { Some(Minus) => { self.next(); Ok(-self.parse_primary()?) }
\*                     Some(Plus) => { self.next(); self.parse_primary() }
\*                     _ => self.parse_primary() }
parse_unary(p) ==
    unary_sign(p, parse_primary(IF peek_is(p, "Minus") \/ peek_is(p, "Plus")
                                THEN advance(p) ELSE p))

unary_sign(p, r) ==
    IF IsOk(r) /\ peek_is(p, "Minus") THEN PR(Ok(FNeg(r.res.val)), r.p) ELSE r

parse_primary(p) ==
    IF peek_is(p, "Number")
    THEN PR(Ok(p.tokens[p.pos + 1].v), advance(p))
    ELSE IF peek_is(p, "LParen")
    THEN primary_paren(parse_expr(advance(p)))
    ELSE IF peek_is(p, "Func")
    THEN primary_func(p, p.tokens[p.pos + 1].name,
                      parse_expr(eat(advance(p), "LParen")))
    ELSE PR(Err("Unexpected token"), advance(p))

\* let v = self.parse_expr()?; if self.peek() == Some(&RParen) { self.next(); } Ok(v)
primary_paren(v) == IF ~IsOk(v) THEN v ELSE PR(v.res, eat(v.p, "RParen"))

\* a function applied to its first argument a
primary_func(p, name, a) ==
    IF ~IsOk(a) THEN a
    ELSE IF name \in TwoArgFuncs
    THEN primary_func2(p, name, a, parse_expr(eat(a.p, "Comma")))
    ELSE PR(apply_func(p.angle, name, a.res.val), eat(a.p, "RParen"))

\* a two-argument function applied to a and its second argument b
primary_func2(p, name, a, b) ==
    IF ~IsOk(b) THEN b
    ELSE PR(apply_two_arg_func(name, a.res.val, b.res.val, p.checks),
            eat(b.p, "RParen"))

(* ------------------------------ engine --------------------------------- *)

HistoryCap == 50

\* if result.is_nan() { Err("Math ERROR") } if result.is_infinite() { Err(overflow) }
evaluate_checks(r) ==
    IF r.kind # "ok" THEN r
    ELSE IF is_nan(r.val) THEN Err("Math ERROR")
    ELSE IF is_infinite(r.val) THEN Err("Math ERROR (overflow)")
    ELSE r

\* let mut parser = Parser::new(tokens, &self.angle); let result = parser.parse_expr()?;
evaluate_tokens(t, mode, checks) ==
    IF t.kind = "err" THEN Err(t.msg)
    ELSE evaluate_checks(parse_expr(NewParser(t.tokens, mode, checks)).res)

\* evaluate_result with the tokenizer given 0.0 in place of self.ans
evaluate_result_without_ans(expr, a, mem, mode, checks) ==
    evaluate_tokens(tokenize(expr, Zero, mem), mode, checks)

\* the outcome of evaluate before it touches the engine: tokenize, parse,
\* then the NaN and infinity checks on the top-level result
evaluate_result(expr, a, mem, mode, checks) ==
    evaluate_tokens(tokenize(expr, a, mem), mode, checks)

\* push_history with the length test off by one: >= for >
push_history_early(h, entry) ==
    LET h1 == Append(h, entry)
    IN  IF Len(h1) >= HistoryCap THEN Tail(h1) ELSE h1

\* self.history.push(entry); if self.history.len() > 50 { self.history.remove(0); }
push_history(h, entry) ==
    LET h1 == Append(h, entry)
    IN  IF Len(h1) > HistoryCap THEN Tail(h1) ELSE h1

\* ans_after with the answer cleared by a failed evaluation
ans_after_cleared(a, r) == IF r.kind = "ok" THEN r.val ELSE Zero

\* ans_after with the result never stored
ans_after_kept(a, r) == a

\* self.ans after evaluate returned r
ans_after(a, r) == IF r.kind = "ok" THEN r.val ELSE a

\* history_after with an entry pushed for a failed evaluation as well
history_after_always(h, expr, r) == push_history(h, <<expr, r.val>>)

\* self.history after evaluate(expr) returned r
history_after(h, expr, r) ==
    IF r.kind = "ok" THEN push_history(h, <<expr, r.val>>) ELSE h

\* next_angle that leaves Gradians out of the cycle
next_angle_two_modes(mode) ==
    CASE mode = "Degrees"  -> "Radians"
      [] mode = "Radians"  -> "Degrees"
      [] mode = "Gradians" -> "Degrees"

\* AngleMode after cycle_angle
next_angle(mode) ==
    CASE mode = "Degrees"  -> "Radians"
      [] mode = "Radians"  -> "Gradians"
      [] mode = "Gradians" -> "Degrees"

\* store that keeps the value of a key the map already holds
store_if_absent(mem, var, val) ==
    [c \in (DOMAIN mem) \cup {var} |-> IF c \in DOMAIN mem THEN mem[c] ELSE val]

\* memory after store(var, val)
store(mem, var, val) == [c \in (DOMAIN mem) \cup {var} |-> IF c = var THEN val ELSE mem[c]]

recall(mem, var) == mem_get(mem, var)

\* the process is running: no call of the engine has panicked
Alive == last_result.kind # "panic"

\* enum DisplayFormat: the three unit variants and Fix(u8)
Normal == [variant |-> "Normal", n |-> 0]

Scientific == [variant |-> "Scientific", n |-> 0]

Engineering == [variant |-> "Engineering", n |-> 0]

Fix(n) == [variant |-> "Fix", n |-> n]

\* CasioApp::new: the fields of the application beside its engine
NewApp ==
    [input |-> <<"0">>, top_line |-> <<>>, error |-> FALSE,
     shift_mode |-> FALSE, alpha_mode |-> FALSE, hyp_mode |-> FALSE]

Init ==
    /\ angle = "Degrees"
    /\ format = Normal
    /\ ans = Zero
    /\ memory = [c \in MemoryVars |-> Zero]
    /\ m_plus = Zero
    /\ history = <<>>
    /\ overflow_checks \in BOOLEAN
    /\ last_op = "new"
    /\ last_expr = <<>>
    /\ last_result = NoResult
    /\ log = <<>>
    /\ fn_in = <<>>
    /\ fn_acc = <<>>
    /\ fn_out = NoResult
    /\ app = NewApp

fn_vars == <<fn_in, fn_acc, fn_out>>

\* the engine after evaluate(expr) computed r; log keeps every successful
\* evaluation
evaluate(expr, r) ==
    /\ ans' = ans_after(ans, r)
    /\ history' = history_after(history, expr, r)
    /\ log' = IF r.kind = "ok" THEN Append(log, <<expr, r.val>>) ELSE log
    /\ last_op' = "evaluate"
    /\ last_expr' = expr
    /\ last_result' = r
    /\ UNCHANGED <<angle, format, memory, m_plus, overflow_checks>>

\* CalcEngine::evaluate(expr)
Evaluate(expr) ==
    /\ Alive
    /\ evaluate(expr, evaluate_result(expr, ans, memory, angle, overflow_checks))
    /\ UNCHANGED <<fn_vars, app>>

\* the engine is as constructed: no operation has been called
Fresh == last_op = "new"

\* evaluate(expr) for a text built from the parts `parts`
EvaluateBuilt(parts, expr) ==
    /\ evaluate(expr, evaluate_result(expr, ans, memory, angle, overflow_checks))
    /\ fn_in' = parts
    /\ UNCHANGED app
    /\ UNCHANGED <<fn_acc, fn_out>>

\* the last step was given the parts of an input of the kind `kind`
Built(kind) == fn_in # <<>> /\ fn_in[1] = kind

\* the engine after cycle_angle()
cycle_step ==
    /\ Alive
    /\ angle' = next_angle(angle)
    /\ last_op' = "cycle_angle"
    /\ last_expr' = <<>>
    /\ last_result' = NoResult
    /\ UNCHANGED <<format, ans, memory, m_plus, history, overflow_checks, log>>

CycleAngle == cycle_step /\ UNCHANGED <<fn_vars, app>>

\* cycle_angle(), with the mode it was called in noted at the end of fn_acc
CycleNoted ==
    /\ cycle_step
    /\ fn_acc' = Append(fn_acc, angle)
    /\ UNCHANGED <<fn_in, fn_out>>
    /\ UNCHANGED app

\* the engine after store(var, val)
store_step(var, val) ==
    /\ Alive
    /\ memory' = store(memory, var, val)
    /\ last_op' = "store"
    /\ last_expr' = <<var>>
    /\ last_result' = NoResult
    /\ UNCHANGED <<angle, format, ans, m_plus, history, overflow_checks, log>>

Store(var, val) == store_step(var, val) /\ UNCHANGED <<fn_vars, app>>

\* store(var, val), with the call noted at the end of fn_acc
StoreNoted(var, val) ==
    /\ store_step(var, val)
    /\ fn_acc' = Append(fn_acc, <<var, val>>)
    /\ UNCHANGED <<fn_in, fn_out>>
    /\ UNCHANGED app

Recall(var) ==
    /\ Alive
    /\ last_op' = "recall"
    /\ last_expr' = <<var>>
    /\ last_result' = Ok(recall(memory, var))
    /\ UNCHANGED <<engine_vars, overflow_checks, log, fn_vars, app>>

MPlusOp(val) ==
    /\ Alive
    /\ m_plus' = FAdd(m_plus, val)
    /\ last_op' = "m_plus_op"
    /\ last_expr' = <<>>
    /\ last_result' = NoResult
    /\ UNCHANGED <<angle, format, ans, memory, history, overflow_checks, log, fn_vars, app>>

MMinusOp(val) ==
    /\ Alive
    /\ m_plus' = FSub(m_plus, val)
    /\ last_op' = "m_minus_op"
    /\ last_expr' = <<>>
    /\ last_result' = NoResult
    /\ UNCHANGED <<angle, format, ans, memory, history, overflow_checks, log, fn_vars, app>>

RecallM ==
    /\ Alive
    /\ last_op' = "recall_m"
    /\ last_expr' = <<>>
    /\ last_result' = Ok(m_plus)
    /\ UNCHANGED <<engine_vars, overflow_checks, log, fn_vars, app>>

\* clear_m that clears the memory cell M as well
ClearMAndCell ==
    /\ Alive
    /\ m_plus' = Zero
    /\ memory' = store(memory, "M", Zero)
    /\ last_op' = "clear_m"
    /\ last_expr' = <<>>
    /\ last_result' = NoResult
    /\ UNCHANGED <<angle, format, ans, history, overflow_checks, log, fn_vars, app>>

ClearM ==
    /\ Alive
    /\ m_plus' = Zero
    /\ last_op' = "clear_m"
    /\ last_expr' = <<>>
    /\ last_result' = NoResult
    /\ UNCHANGED <<angle, format, ans, memory, history, overflow_checks, log, fn_vars, app>>

\* the display format is a public field that the caller assigns
SetFormat(f) ==
    /\ Alive
    /\ format' = f
    /\ last_op' = "set_format"
    /\ last_expr' = <<>>
    /\ last_result' = NoResult
    /\ UNCHANGED <<angle, ans, memory, m_plus, history, overflow_checks, log, fn_vars, app>>

(* ------------------- the engine under all its operations --------------- *)

MaxEvals == 1

MaxAcc == 1

\* the inputs of evaluate: one per way to succeed or to fail
Exprs ==
    { <<"A", "n", "s", "+", "1">>,
      <<"A", "*", "2">>,
      <<"a", "s", "i", "n", "(", "1", ")">>,
      <<"5", "/", "0">>,
      <<"2", "#">>,
      <<"1", ".", "2", ".", "3">>,
      <<"2", "+">>,
      <<"s", "q", "r", "t", "(", "0", "-", "4", ")">>,
      <<"(", "0", "-", "8", ")", "^", "0", ".", "5">>,
      <<"0", "^", "-", "1">>,
      <<"3", "5", "!">> }

StoreVars == {"A"}

StoreVals == {Num(7)}

AccVals == {Num(1)}

Formats == {Normal, Engineering}

Next ==
    \/ \E e \in Exprs : Evaluate(e) /\ Len(log') <= MaxEvals
    \/ CycleAngle
    \/ \E v \in StoreVars, x \in StoreVals : Store(v, x)
    \/ \E v \in StoreVars : Recall(v)
    \/ \E x \in AccVals : Lt(FAdd(m_plus, x), Num(MaxAcc + 1)) /\ MPlusOp(x)
    \/ \E x \in AccVals : Le(Zero, FSub(m_plus, x)) /\ MMinusOp(x)
    \/ RecallM
    \/ ClearM
    \/ \E f \in Formats : SetFormat(f)

Spec == Init /\ [][Next]_vars

\* C1: whenever evaluate fails, whatever the reason, lastAnswer, history,
\* memory, the accumulator, the angle mode and the display format are equal to
\* their values before the call.
C1_FailedEvaluateKeepsState ==
    [][(last_op' = "evaluate" /\ last_result'.kind = "err")
          => UNCHANGED engine_vars]_vars

\* a failed evaluation on an engine none of whose fields has its initial value
C1_Witness ==
    /\ last_op = "evaluate"
    /\ last_result = Err("Math ERROR (div/0)")
    /\ ans # Zero
    /\ history # <<>>
    /\ memory["A"] # Zero
    /\ m_plus # Zero
    /\ angle # "Degrees"
    /\ format # Normal

(* ------------------- more evaluations than the history keeps ----------- *)

MaxHist == 52

\* Ans+1 gives every successful evaluation a result of its own; 5/0 fails
HistExprs ==
    { <<"A", "n", "s", "+", "1">>,
      <<"5", "/", "0">> }

NextHist ==
    \/ \E e \in HistExprs : Evaluate(e) /\ Len(log') <= MaxHist
    \/ CycleAngle
    \/ \E v \in StoreVars, x \in StoreVals : Store(v, x)
    \/ \E x \in AccVals : Lt(FAdd(m_plus, x), Num(MaxAcc + 1)) /\ MPlusOp(x)
    \/ \E f \in Formats : SetFormat(f)

SpecHist == Init /\ [][NextHist]_vars

\* C2: in every reachable state the history holds at most 50 entries, and
\* after more than 50 successful evaluations it holds exactly the 50 most
\* recent (text, result) pairs in the order of their evaluation, oldest first.
C2_HistoryKeepsNewest50 ==
    /\ Len(history) <= 50
    /\ Len(log) > 50 => history = SubSeq(log, Len(log) - 49, Len(log))

\* more than 50 evaluations have succeeded and the oldest one is gone
C2_Witness ==
    /\ Len(log) > 50
    /\ Len(history) = 50
    /\ history[1] # log[1]
    /\ history[50] = log[Len(log)]

\* C3: a successful evaluate(text) returning v sets lastAnswer to v, appends
\* exactly one entry (text, v) as the newest history entry, and changes neither
\* memory, the accumulator, the angle mode nor the display format.
C3_SuccessfulEvaluateUpdates ==
    [][(last_op' = "evaluate" /\ last_result'.kind = "ok") =>
          /\ ans' = last_result'.val
          /\ history' # <<>>
          /\ history'[Len(history')] = <<last_expr', last_result'.val>>
          /\ LET older == SubSeq(history', 1, Len(history') - 1)
             IN  older = history \/ (Len(history) = 50 /\ older = Tail(history))
          /\ UNCHANGED <<memory, m_plus, angle, format>>]_vars

\* a successful evaluation on an engine with a full history and with memory,
\* accumulator, angle mode and format all changed from their initial values
C3_Witness ==
    /\ last_op = "evaluate"
    /\ last_result.kind = "ok"
    /\ ans = last_result.val
    /\ Len(log) > 50
    /\ memory["A"] # Zero
    /\ m_plus # Zero
    /\ angle # "Degrees"
    /\ format # Normal

(* ----------------- texts built from numbers and operators -------------- *)

\* the decimal text of a natural number
RECURSIVE IntChars(_)
IntChars(n) ==
    IF n < 10 THEN <<Digits[n + 1]>>
    ELSE Append(IntChars(n \div 10), Digits[(n % 10) + 1])

\* a fresh engine's memory
NoMemory == [c \in MemoryVars |-> Zero]

\* what a fresh engine returns for a text
FreshResult(expr) == evaluate_result(expr, Zero, NoMemory, "Degrees", overflow_checks)

(* --------------------------- chains of powers -------------------------- *)

PowBase == 3

PowExp == 3

PowTower == 2

\* a^b^c, a^(b^c) and (a^b)^c
PowChain(a, b, c) == IntChars(a) \o <<"^">> \o IntChars(b) \o <<"^">> \o IntChars(c)

PowRight(a, b, c) ==
    IntChars(a) \o <<"^", "(">> \o IntChars(b) \o <<"^">> \o IntChars(c) \o <<")">>

PowLeft(a, b, c) ==
    <<"(">> \o IntChars(a) \o <<"^">> \o IntChars(b) \o <<")", "^">> \o IntChars(c)

NextPow ==
    \/ Fresh /\ \E a \in 1..PowBase, b \in 0..PowExp, c \in 0..PowTower :
          EvaluateBuilt(<<"chain", a, b, c>>, PowChain(a, b, c))
    \/ Fresh /\ \E a \in 1..PowBase, b \in 0..PowExp, c \in 0..PowTower :
          EvaluateBuilt(<<"right", a, b, c>>, PowRight(a, b, c))
    \/ Fresh /\ \E a \in 1..PowBase, b \in 0..PowExp, c \in 0..PowTower :
          EvaluateBuilt(<<"left", a, b, c>>, PowLeft(a, b, c))

SpecPow == Init /\ [][NextPow]_vars

\* C4: the power operator is right-associative: for all numbers a, b, c the
\* expression a^b^c evaluates to a^(b^c), the value of the text a^(b^c); in
\* particular 2^3^2 evaluates to 512.
C4_PowerIsRightAssociative ==
    /\ Built("chain") =>
          /\ last_result = Ok(Num(IPow(fn_in[2], IPow(fn_in[3], fn_in[4]))))
          /\ last_result = FreshResult(PowRight(fn_in[2], fn_in[3], fn_in[4]))
    /\ last_expr = <<"2", "^", "3", "^", "2">> => last_result = Ok(Num(512))

(* ------------------- signs, precedence and grouping -------------------- *)

MaxBase == 3

MaxExp == 3

MaxOps == 2

MaxNum == 3

\* -a^b and (-a)^b
SignedPow(a, b) == <<"-">> \o IntChars(a) \o <<"^">> \o IntChars(b)

SignedBase(a, b) == <<"(", "-">> \o IntChars(a) \o <<")", "^">> \o IntChars(b)

BinOps == {"+", "-", "*", "/"}

\* ns[1] os[1] ns[2] ... os[k] ns[k+1], written without parentheses
RECURSIVE FlatFrom(_, _, _)
FlatFrom(ns, os, i) ==
    IF i > Len(os) THEN <<>>
    ELSE <<os[i]>> \o IntChars(ns[i + 1]) \o FlatFrom(ns, os, i + 1)

Flat(ns, os) == IntChars(ns[1]) \o FlatFrom(ns, os, 1)

\* the product that `text` starts, with every * and / from os[i] on taken
\* into it in parentheses, left to right; next is the operator that ends it
RECURSIVE GroupTerm(_, _, _, _)
GroupTerm(ns, os, i, text) ==
    IF i <= Len(os) /\ os[i] \in {"*", "/"}
    THEN GroupTerm(ns, os, i + 1,
                   <<"(">> \o text \o <<os[i]>> \o IntChars(ns[i + 1]) \o <<")">>)
    ELSE [text |-> text, next |-> i]

\* the sum `text` with the product after os[i] taken into it in parentheses
GroupAdd(ns, os, i, text, term) ==
    [text |-> <<"(">> \o text \o <<os[i]>> \o term.text \o <<")">>, next |-> term.next]

\* the sum that `text` starts, with every product from os[i] on taken into
\* it, left to right
RECURSIVE GroupSum(_, _, _)
GroupSum(ns, os, sum) ==
    IF sum.next > Len(os) THEN sum.text
    ELSE GroupSum(ns, os,
                  GroupAdd(ns, os, sum.next, sum.text,
                           GroupTerm(ns, os, sum.next + 1, IntChars(ns[sum.next + 1]))))

\* the fully parenthesized form of Flat(ns, os): * and / group before + and -,
\* operators of one level group left to right
Grouped(ns, os) == GroupSum(ns, os, GroupTerm(ns, os, 1, IntChars(ns[1])))

\* the examples 2+3*4, 8-3-2 and 8/4/2
FlatExamples ==
    { <<"flat", <<2, 3, 4>>, <<"+", "*">>>>,
      <<"flat", <<8, 3, 2>>, <<"-", "-">>>>,
      <<"flat", <<8, 4, 2>>, <<"/", "/">>>> }

\* the texts around a division: before it and after it
DivContexts ==
    { <<<<>>, <<>>>>,
      <<<<"1", "+">>, <<>>>>,
      <<<<>>, <<"+", "1">>>>,
      <<<<"2", "*">>, <<"*", "3">>>>,
      <<<<"4", "/">>, <<"/", "2">>>>,
      <<<<"(">>, <<")">>>>,
      <<<<"-", "(">>, <<")", "^", "2">>>>,
      <<<<"s", "q", "r", "t", "(">>, <<")">>>>,
      <<<<"n", "C", "r", "(", "3", ",">>, <<")">>>>,
      <<<<"2", "^", "(">>, <<")">>>>,
      <<<<"2", "^", "3", "^", "(">>, <<")">>>> }

\* the texts of a right operand that evaluates to exactly zero
ZeroTexts ==
    { <<"0">>,
      <<"0", ".", "0">>,
      <<"-", "0">>,
      <<"(", "1", "-", "1", ")">>,
      <<"0", "%">>,
      <<"0", "^", "2">>,
      <<"s", "i", "n", "(", "0", ")">> }

\* a division of a by the text z, in the context ctx
DivText(ctx, a, z) == ctx[1] \o IntChars(a) \o <<"/">> \o z \o ctx[2]

NextArith ==
    \/ Fresh /\ \E a \in 0..MaxBase, b \in 0..MaxExp :
          EvaluateBuilt(<<"signed", a, b>>, SignedPow(a, b))
    \/ Fresh /\ \E a \in 0..MaxBase, b \in 0..MaxExp :
          EvaluateBuilt(<<"signed base", a, b>>, SignedBase(a, b))
    \/ Fresh /\ \E k \in 1..MaxOps : \E ns \in [1..(k + 1) -> 1..MaxNum], os \in [1..k -> BinOps] :
          EvaluateBuilt(<<"flat", ns, os>>, Flat(ns, os))
    \/ Fresh /\ \E k \in 1..MaxOps : \E ns \in [1..(k + 1) -> 1..MaxNum], os \in [1..k -> BinOps] :
          EvaluateBuilt(<<"grouped", ns, os>>, Grouped(ns, os))
    \/ Fresh /\ \E f \in FlatExamples : EvaluateBuilt(f, Flat(f[2], f[3]))
    \/ Fresh /\ \E ctx \in DivContexts, a \in 0..MaxNum, z \in ZeroTexts :
          EvaluateBuilt(<<"by zero", ctx, a, z>>, DivText(ctx, a, z))
    \/ Fresh /\ \E a \in 0..MaxNum, b \in 1..MaxNum :
          EvaluateBuilt(<<"quotient", a, b>>, DivText(<<<<>>, <<>>>>, a, IntChars(b)))

SpecArith == Init /\ [][NextArith]_vars

\* C5: a prefix sign applies to the primary it precedes before the power
\* operator is applied: for all numbers a and b the expression -a^b evaluates
\* to (-a)^b, the value of the text (-a)^b, so -2^2 evaluates to 4.
C5_SignBindsBeforePower ==
    /\ Built("signed") =>
          /\ last_result = Ok(Num(IPow(-fn_in[2], fn_in[3])))
          /\ last_result = FreshResult(SignedBase(fn_in[2], fn_in[3]))
    /\ last_expr = <<"-", "2", "^", "2">> => last_result = Ok(Num(4))

\* -2^2 was evaluated, where (-2)^2 = 4 and -(2^2) = -4 differ
C5_Witness ==
    /\ last_op = "evaluate"
    /\ fn_in = <<"signed", 2, 2>>
    /\ last_expr = <<"-", "2", "^", "2">>
    /\ last_result = Ok(Num(4))

\* C6: for every expression built from numbers and the binary operators
\* + - * /, the evaluated value equals that of the fully parenthesized form in
\* which * and / group before + and -, and operators of the same level group
\* left to right: 2+3*4 = 14, 8-3-2 = 3, 8/4/2 = 1.
C6_PrecedenceAndLeftGrouping ==
    /\ Built("flat") =>
          /\ last_result.kind = "ok"
          /\ last_result = FreshResult(Grouped(fn_in[2], fn_in[3]))
    /\ fn_in = <<"flat", <<2, 3, 4>>, <<"+", "*">>>> => last_result = Ok(Num(14))
    /\ fn_in = <<"flat", <<8, 3, 2>>, <<"-", "-">>>> => last_result = Ok(Num(3))
    /\ fn_in = <<"flat", <<8, 4, 2>>, <<"/", "/">>>> => last_result = Ok(Num(1))

\* 3-2*3 was evaluated, where (3-2)*3 = 3 and 3-(2*3) = -3 differ
C6_Witness ==
    /\ last_op = "evaluate"
    /\ fn_in = <<"flat", <<3, 2, 3>>, <<"-", "*">>>>
    /\ last_expr = <<"3", "-", "2", "*", "3">>
    /\ last_result = Ok(Num(-3))

\* C7: a division whose right operand evaluates to exactly zero fails with
\* the division-by-zero error, a reason other than the math error and the
\* overflow, instead of producing an infinite or NaN value, wherever in the
\* expression it occurs; a zero numerator over a non-zero divisor succeeds
\* with 0.
C7_ZeroDivisorFails ==
    /\ Built("by zero") => last_result = Err("Math ERROR (div/0)")
    /\ (Built("quotient") /\ fn_in[2] = 0) => last_result = Ok(Zero)

(* ------------------------------ factorial ------------------------------ *)

MaxFactorial == 71

\* the operands: the integers 0..MaxFactorial, negative integers, halves,
\* and for the function alone NaN and the infinities
FactorialTextOperands ==
    {Num(n) : n \in 0..MaxFactorial} \cup {Num(-n) : n \in 1..MaxNum}
        \cup {Fin(2 * n + 1, 2) : n \in 0..MaxNum}

FactorialOperands == FactorialTextOperands \cup {NaN, Inf(1), Inf(-1)}

\* n!, (-n)! and n.5!
FactorialText(v) ==
    IF v.d = 2 THEN IntChars(v.n \div 2) \o <<".", "5", "!">>
    ELSE IF v.n < 0 THEN <<"(", "-">> \o IntChars(-v.n) \o <<")", "!">>
    ELSE IntChars(v.n) \o <<"!">>

\* factorial(v), with the accumulator it ended with
ApplyFactorial(v) ==
    /\ fn_in' = <<"factorial", v>>
    /\ UNCHANGED app
    /\ fn_acc' = IF factorial_rejects(v) THEN <<>> ELSE factorial_acc(v, overflow_checks)
    /\ fn_out' = factorial(v, overflow_checks)
    /\ last_op' = "factorial"
    /\ UNCHANGED <<engine_vars, overflow_checks, last_expr, last_result, log>>

NextFact ==
    \/ Fresh /\ \E v \in FactorialOperands : ApplyFactorial(v)
    \/ Fresh /\ \E v \in FactorialTextOperands : EvaluateBuilt(<<"postfix", v>>, FactorialText(v))

SpecFact == Init /\ [][NextFact]_vars

\* acc * lo * (lo + 1) * ... * hi as an integer of unbounded size; zero is
\* the empty limb sequence
RECURSIVE BigRange(_, _, _)
BigRange(acc, lo, hi) ==
    IF lo > hi THEN acc
    ELSE IF lo = hi THEN BigMul(acc, lo)
    ELSE LET left == BigRange(acc, lo, (lo + hi) \div 2)
         IN  IF left = <<>> THEN left ELSE BigRange(left, (lo + hi) \div 2 + 1, hi)

\* v is an integer of 0..69
InFactorialRange(v) == IsIntegral(v) /\ 0 <= v.n /\ v.n <= 69

\* C8: for every integer n with 0 <= n <= 69, n! is computed as the exact
\* integer product 1*2*...*n: the unsigned 128-bit accumulator of the product
\* never overflows or wraps before the result is promoted to floating point.
C8_FactorialAccumulatorExact ==
    (Built("factorial") /\ InFactorialRange(fn_in[2])) =>
        /\ fn_out.kind = "ok"
        /\ ~fn_acc.ovf
        /\ fn_acc.limbs = BigRange(<<1>>, 2, fn_in[2].n)

\* C9: the factorial postfix fails with the math error exactly when its
\* operand is negative, non-integral or greater than 69, and succeeds for every
\* integer operand in 0..69: 5! = 120, 0! = 1, 70! fails.
C9_FactorialFailsOutsideRange ==
    /\ Built("postfix") =>
          IF InFactorialRange(fn_in[2])
          THEN last_result.kind = "ok"
          ELSE last_result = Err("Math ERROR")
    /\ last_expr = <<"5", "!">> => last_result = Ok(Num(120))
    /\ last_expr = <<"0", "!">> => last_result = Ok(Num(1))
    /\ last_expr = <<"7", "0", "!">> => last_result = Err("Math ERROR")

(* ----------------------------- combinations ---------------------------- *)

MaxN == 10

\* nCr(n,r)
NcrText(n, r) ==
    <<"n", "C", "r", "(">> \o IntChars(n) \o <<",">> \o IntChars(r) \o <<")">>

\* apply_two_arg_func("nCr", n, r), with the accumulator combinations ended with
ApplyCombinations(n, r) ==
    /\ fn_in' = <<"combinations", n, r>>
    /\ UNCHANGED app
    /\ fn_acc' = IF r_exceeds_n(n, r) THEN <<>> ELSE combinations(n, r)
    /\ fn_out' = apply_two_arg_func("nCr", Num(n), Num(r), overflow_checks)
    /\ last_op' = "nCr"
    /\ UNCHANGED <<engine_vars, overflow_checks, last_expr, last_result, log>>

NextNcr ==
    \/ Fresh /\ \E n \in 0..MaxN, r \in 0..MaxN : ApplyCombinations(n, r)
    \/ Fresh /\ \E n \in 0..MaxN, r \in 0..MaxN : EvaluateBuilt(<<"nCr", n, r>>, NcrText(n, r))

SpecNcr == Init /\ [][NextNcr]_vars

RECURSIVE IntFactorial(_)
IntFactorial(n) == IF n <= 1 THEN 1 ELSE n * IntFactorial(n - 1)

\* n! / (r! (n-r)!)
Binomial(n, r) == IntFactorial(n) \div (IntFactorial(r) * IntFactorial(n - r))

\* C10: for all non-negative integers n and r up to MaxN, nCr(n,r) fails with
\* the math error when r > n and otherwise equals the binomial coefficient
\* n!/(r!(n-r)!); every intermediate integer division in the multiplicative
\* loop is exact, so no truncation error accumulates: nCr(5,2) = 10 and
\* nCr(2,5) fails.
C10_CombinationsAreBinomial ==
    /\ Built("combinations") =>
          IF fn_in[3] > fn_in[2]
          THEN fn_out = Err("Math ERROR")
          ELSE /\ fn_out = Ok(Num(Binomial(fn_in[2], fn_in[3])))
               /\ fn_acc.exact
               /\ ~fn_acc.ovf
               /\ fn_acc.limbs = BigOfInt(Binomial(fn_in[2], fn_in[3]))
    /\ Built("nCr") =>
          last_result = IF fn_in[3] > fn_in[2]
                        THEN Err("Math ERROR")
                        ELSE Ok(Num(Binomial(fn_in[2], fn_in[3])))
    /\ last_expr = NcrText(5, 2) => last_result = Ok(Num(10))
    /\ last_expr = NcrText(2, 5) => last_result = Err("Math ERROR")

\* combinations(10, 5) went through five exact divisions to 252
C10_Witness ==
    /\ fn_in = <<"combinations", 10, 5>>
    /\ fn_acc.exact
    /\ fn_out = Ok(Num(252))

(* ------------------------------ the formatter -------------------------- *)
(* Texts are sequences of characters; "times" names the multiplication     *)
(* sign and "infinity" the infinity sign.  A finite value is printed from   *)
(* its exact quotient n/d by long division.                                 *)

\* str::trim_end_matches(c)
RECURSIVE trim_end_matches(_, _)
trim_end_matches(s, c) ==
    IF s # <<>> /\ s[Len(s)] = c
    THEN trim_end_matches(SubSeq(s, 1, Len(s) - 1), c)
    ELSE s

\* format!("{}", n) of an integer
int_text(n) == IF n < 0 THEN <<"-">> \o IntChars(-n) ELSE IntChars(n)

frac_cons(digit, rest) == [digits |-> <<digit>> \o rest.digits, rem |-> rest.rem]

\* the first k digits of r/d after the point (r < d), and the remainder
RECURSIVE frac_digits(_, _, _)
frac_digits(r, d, k) ==
    IF k = 0 THEN [digits |-> <<>>, rem |-> r]
    ELSE frac_cons((r * 10) \div d, frac_digits((r * 10) % d, d, k - 1))

succ_nine(r) == [digits |-> Append(r.digits, 0), carry |-> r.carry]

\* the digits ds plus one in the last place
RECURSIVE digits_succ(_)
digits_succ(ds) ==
    IF ds = <<>> THEN [digits |-> <<>>, carry |-> 1]
    ELSE IF ds[Len(ds)] < 9
         THEN [digits |-> [ds EXCEPT ![Len(ds)] = @ + 1], carry |-> 0]
         ELSE succ_nine(digits_succ(SubSeq(ds, 1, Len(ds) - 1)))

\* an f64 holds n/d exactly when d is a power of two
IsDyadic(d) == \E e \in 0..30 : IPow(2, e) = d

\* the digits cut off are rounded to nearest; a tie goes to the even digit
\* when the f64 holds the value exactly (otherwise the f64 is not on the tie)
round_up(ip, f, d) ==
    CASE 2 * f.rem > d -> TRUE
      [] 2 * f.rem < d -> FALSE
      [] 2 * f.rem = d /\ IsDyadic(d) ->
            (IF f.digits = <<>> THEN ip ELSE f.digits[Len(f.digits)]) % 2 = 1

fixed_text(neg, ip, digits) ==
    (IF neg THEN <<"-">> ELSE <<>>)
    \o IntChars(ip)
    \o (IF digits = <<>> THEN <<>>
        ELSE <<".">> \o [i \in 1..Len(digits) |-> Digits[digits[i] + 1]])

fixed_carry(neg, ip, s) == fixed_text(neg, ip + s.carry, s.digits)

fixed_rounded(neg, ip, f, d) ==
    IF round_up(ip, f, d)
    THEN fixed_carry(neg, ip, digits_succ(f.digits))
    ELSE fixed_text(neg, ip, f.digits)

\* format!("{:.prec$}", val) of a finite value
format_fixed(val, prec) ==
    fixed_rounded(val.n < 0, Abs(val.n) \div val.d,
                  frac_digits(Abs(val.n) % val.d, val.d, prec), val.d)

\* a.log10().floor() of a finite a > 0
RECURSIVE log10_up(_, _)
log10_up(a, e) ==
    IF Lt(a, Num(10)) THEN e ELSE log10_up(FDiv(a, Num(10)), e + 1)

RECURSIVE log10_down(_, _)
log10_down(a, e) ==
    IF Le(Num(1), a) THEN e ELSE log10_down(FMul(a, Num(10)), e - 1)

floor_log10(a) == IF Le(Num(1), a) THEN log10_up(a, 0) ELSE log10_down(a, 0)

\* 10f64.powi(e)
powi10(e) == IF e >= 0 THEN Num(IPow(10, e)) ELSE Fin(1, IPow(10, -e))

TimesTenTo == <<"times", "1", "0", "^">>

scientific_at(val, prec, exp) ==
    trim_end_matches(
        trim_end_matches(format_fixed(FDiv(val, powi10(exp)), prec), "0"), ".")
    \o TimesTenTo \o int_text(exp)

format_scientific(val, prec) ==
    IF IsZero(val) THEN <<"0">>
    ELSE scientific_at(val, prec, floor_log10(FAbs(val)))

engineering_at(val, eng_exp) ==
    format_fixed(FDiv(val, powi10(eng_exp)), 3) \o TimesTenTo \o int_text(eng_exp)

format_engineering(val) ==
    IF IsZero(val) THEN <<"0">>
    ELSE engineering_at(val, (floor_log10(FAbs(val)) \div 3) * 3)

\* abs < 1e-9 and abs >= 1e10, for a finite abs > 0, without products
below_1e_9(abs) == abs.n <= (abs.d - 1) \div 1000000000

at_least_1e10(abs) == (abs.n \div abs.d) \div 100000 >= 100000

format_normal(val) ==
    CASE IsZero(val) -> <<"0">>
      [] below_1e_9(FAbs(val)) \/ at_least_1e10(FAbs(val)) ->
            format_scientific(val, 9)
      [] val = Trunc(val) -> int_text(val.n)
      [] OTHER ->
            trim_end_matches(trim_end_matches(format_fixed(val, 10), "0"), ".")

MathErrorText == <<"M", "a", "t", "h", " ", "E", "R", "R", "O", "R">>

\* CalcEngine::format_result(val) with self.format = fmt
format_result(fmt, val) ==
    CASE is_nan(val) -> MathErrorText
      [] is_infinite(val) ->
            IF val.n > 0 THEN <<"infinity">> ELSE <<"-", "infinity">>
      [] IsFin(val) /\ fmt.variant = "Scientific" -> format_scientific(val, 9)
      [] IsFin(val) /\ fmt.variant = "Engineering" -> format_engineering(val)
      [] IsFin(val) /\ fmt.variant = "Fix" -> format_fixed(val, fmt.n)
      [] IsFin(val) /\ fmt.variant = "Normal" -> format_normal(val)

FormatResult(val) ==
    /\ Alive
    /\ fn_in' = <<"format_result", val>>
    /\ UNCHANGED app
    /\ fn_out' = format_result(format, val)
    /\ last_op' = "format_result"
    /\ last_expr' = <<>>
    /\ last_result' = NoResult
    /\ UNCHANGED <<engine_vars, overflow_checks, log, fn_acc>>

\* the largest precision of Fix(p) that is tried
MaxPrecision == 9

DisplayFormats ==
    {Normal, Scientific, Engineering} \cup {Fix(p) : p \in 0..MaxPrecision}

FormatVals ==
    { Zero, Num(1), Num(-5), Num(1000), Num(1234), Fin(1, 2), Fin(5, 4),
      Fin(-1, 8), Fin(1, 3), Fin(2, 3), Fin(1999, 2), Fin(3, 1000),
      NaN, Inf(1), Inf(-1) }

FormatExprs == { <<"0">>, <<"1", "/", "3">>, <<"5", "/", "0">>, <<"1", "-", "1">> }

NextFormat ==
    \/ \E f \in DisplayFormats : SetFormat(f)
    \/ \E val \in FormatVals : FormatResult(val)
    \/ FormatResult(ans)
    \/ \E expr \in FormatExprs :
          Len(log) < MaxEvals /\ Evaluate(expr)

SpecFormat == Init /\ [][NextFormat]_vars

\* C11: in every display format (Normal, Scientific, Engineering and Fix(p)
\* for p in 0..9) format_result renders the value 0.0 as exactly "0".
C11_ZeroFormatsAsZero ==
    (last_op = "format_result" /\ IsZero(fn_in[2])) => fn_out = <<"0">>

(* ----------------------------- the last answer ------------------------- *)

\* the largest number of successful evaluations in a run
MaxAnsEvals == 2

AnsText == <<"A", "n", "s">>

AnsExprs ==
    { AnsText,
      <<"a", "s", "i", "n", "(", "1", ")">>,
      <<"2", "+", "3">>,
      <<"A", "n", "s", "*", "2">>,
      <<"5", "/", "0">>,
      <<"2", "#">> }

NextAns ==
    \/ \E e \in AnsExprs : Evaluate(e) /\ Len(log') <= MaxAnsEvals
    \/ CycleAngle
    \/ \E v \in StoreVars, x \in StoreVals : Store(v, x)
    \/ \E x \in AccVals : Lt(FAdd(m_plus, x), Num(MaxAcc + 1)) /\ MPlusOp(x)
    \/ \E x \in AccVals : Le(Zero, FSub(m_plus, x)) /\ MMinusOp(x)
    \/ ClearM

SpecAns == Init /\ [][NextAns]_vars

\* the result of the most recent successful evaluation, 0 when there is none
LastSuccess == IF log = <<>> THEN Zero ELSE log[Len(log)][2]

\* C12: after any sequence of operations, evaluate("Ans") returns the result
\* of the most recent successful evaluation, or 0 when no evaluation has
\* succeeded yet; failed evaluations, stores, accumulator operations and angle
\* changes made in between do not change what it returns.
C12_AnsIsLastSuccess ==
    [][(last_op' = "evaluate" /\ last_expr' = AnsText)
          => last_result' = Ok(LastSuccess)]_vars

\* evaluate("Ans") returned the 90 of an earlier asin(1) after the angle mode,
\* a memory cell and the accumulator were changed
C12_Witness ==
    /\ last_op = "evaluate"
    /\ last_expr = AnsText
    /\ last_result = Ok(Num(90))
    /\ Len(log) = 2
    /\ log[1] = <<<<"a", "s", "i", "n", "(", "1", ")">>, Num(90)>>
    /\ angle # "Degrees"
    /\ memory["A"] # Zero
    /\ m_plus # Zero

(* ------------------------------- the memory ---------------------------- *)

\* the largest number of stores in a run
MaxStores == 3

\* two of the nine cells of a new engine and a key it does not hold
MemVars == {"A", "B", "Z"}

MemVals == {Num(7), Num(8)}

MemExprs == { <<"A", "+", "1">>, <<"5", "/", "0">> }

NextMem ==
    \/ \E v \in MemVars, x \in MemVals :
          Len(fn_acc) < MaxStores /\ StoreNoted(v, x)
    \/ \E v \in MemVars : Recall(v)
    \/ log = <<>> /\ \E e \in MemExprs : Evaluate(e)
    \/ CycleAngle
    \/ IsZero(m_plus) /\ \E x \in AccVals : MPlusOp(x)
    \/ ~IsZero(m_plus) /\ \E x \in AccVals : MMinusOp(x)
    \/ ClearM

SpecMem == Init /\ [][NextMem]_vars

\* the value of the last of the first i noted stores that was made to v,
\* 0 when there is none
RECURSIVE LastStoredIn(_, _, _)
LastStoredIn(notes, i, v) ==
    IF i = 0 THEN Zero
    ELSE IF notes[i][1] = v THEN notes[i][2]
    ELSE LastStoredIn(notes, i - 1, v)

LastStored(v) == LastStoredIn(fn_acc, Len(fn_acc), v)

\* C13: after store(v, x), recall(v) returns exactly x until the next store
\* to v, whatever evaluations, accumulator operations, angle changes and
\* stores to other variables come in between; recall of a variable that was
\* never stored returns 0.
C13_RecallReturnsLastStore ==
    last_op = "recall" => last_result = Ok(LastStored(last_expr[1]))

\* recall(A) returned the 7 stored first, after stores of 8 to B and Z, an
\* evaluation, an angle change and an accumulation
C13_Witness ==
    /\ last_op = "recall"
    /\ last_expr = <<"A">>
    /\ last_result = Ok(Num(7))
    /\ fn_acc = << <<"A", Num(7)>>, <<"B", Num(8)>>, <<"Z", Num(8)>> >>
    /\ log # <<>>
    /\ angle # "Degrees"
    /\ m_plus # Zero

(* ---------------------- memory variables in a text --------------------- *)

\* the largest number of stores in a run of SpecVar
MaxVarStores == 2

LowerVars == {"a", "b", "c", "d", "e", "f", "x", "y", "m"}

NextVar ==
    \/ \E v \in MemoryVars, x \in MemVals :
          Len(fn_acc) < MaxVarStores /\ StoreNoted(v, x)
    \/ log = <<>> /\ \E c \in MemoryVars \cup LowerVars : Evaluate(<<c>>)

SpecVar == Init /\ [][NextVar]_vars

\* C14: for every memory variable v of A B C D E F X Y M, evaluating the text
\* that is the single letter v returns the value last stored to v (0 when
\* nothing was stored); the lowercase m reads the cell of M; the lowercase
\* forms of the other variables do not read memory: e is Euler's number and
\* a b c d f x y are rejected.
C14_LetterReadsItsCell ==
    (last_op = "evaluate" /\ Len(last_expr) = 1) =>
        LET c == last_expr[1]
        IN  CASE c \in MemoryVars -> last_result = Ok(LastStored(c))
              [] c = "m" -> last_result = Ok(LastStored("M"))
              [] c = "e" -> last_result = Ok(E)
              [] OTHER -> last_result.kind = "err"

\* the text m returned the 8 stored to M over an earlier 7
C14_Witness ==
    /\ last_op = "evaluate"
    /\ last_expr = <<"m">>
    /\ last_result = Ok(Num(8))
    /\ fn_acc = << <<"M", Num(7)>>, <<"M", Num(8)>> >>

(* ------------------------------ the angle mode ------------------------- *)

\* the largest number of calls of cycle_angle in a run
MaxCycles == 4

AngleExprs == { <<"a", "s", "i", "n", "(", "1", ")">>, <<"5", "/", "0">> }

NextAngle ==
    \/ Len(fn_acc) < MaxCycles /\ CycleNoted
    \/ log = <<>> /\ \E e \in AngleExprs : Evaluate(e)
    \/ \E v \in StoreVars, x \in StoreVals : Store(v, x)
    \/ IsZero(m_plus) /\ \E x \in AccVals : MPlusOp(x)
    \/ ClearM
    \/ \E f \in Formats : SetFormat(f)

SpecAngle == Init /\ [][NextAngle]_vars

\* the mode the i-th call of cycle_angle left
ModeAfterCall(i) == IF i = Len(fn_acc) THEN angle ELSE fn_acc[i + 1]

\* C15: cycle_angle takes Degrees to Radians, Radians to Gradians and
\* Gradians to Degrees and changes nothing else of the engine, and every
\* third call leaves the mode that the first of the three was called in.
C15_CycleAngleRotates ==
    /\ [][last_op' = "cycle_angle" =>
            /\ <<angle, angle'>> \in { <<"Degrees", "Radians">>,
                                       <<"Radians", "Gradians">>,
                                       <<"Gradians", "Degrees">> }
            /\ UNCHANGED <<format, ans, memory, m_plus, history>>]_vars
    /\ [](\A i \in 3..Len(fn_acc) : ModeAfterCall(i) = fn_acc[i - 2])

\* a third call of cycle_angle is back in Degrees, on an engine whose answer,
\* history, memory, accumulator and format were all changed
C15_Witness ==
    /\ last_op = "cycle_angle"
    /\ Len(fn_acc) = 3
    /\ angle = "Degrees"
    /\ ans # Zero
    /\ history # <<>>
    /\ memory["A"] # Zero
    /\ m_plus # Zero
    /\ format # Normal

(* ------------------------- accumulator and memory ---------------------- *)

AccVars == {"A", "M"}

AccExprs == { <<"M", "+", "1">> }

NextAcc ==
    \/ \E x \in AccVals : Lt(FAdd(m_plus, x), Num(MaxAcc + 1)) /\ MPlusOp(x)
    \/ \E x \in AccVals : Le(Zero, FSub(m_plus, x)) /\ MMinusOp(x)
    \/ RecallM
    \/ ClearM
    \/ \E v \in AccVars, x \in MemVals : Store(v, x)
    \/ \E v \in AccVars : Recall(v)
    \/ log = <<>> /\ \E e \in AccExprs : Evaluate(e)

SpecAcc == Init /\ [][NextAcc]_vars

\* C16: the accumulator and the memory are independent: m_plus_op,
\* m_minus_op and clear_m change no memory cell (the cell M included), store
\* does not change the accumulator, and recall_m called right after clear_m
\* returns 0.
C16_AccumulatorApartFromMemory ==
    [][/\ last_op' \in {"m_plus_op", "m_minus_op", "clear_m"} => memory' = memory
       /\ last_op' = "store" => m_plus' = m_plus
       /\ (last_op = "clear_m" /\ last_op' = "recall_m")
             => last_result' = Ok(Zero)]_vars

\* clear_m has just cleared the accumulator while the cells M and A hold 7
\* and 8
C16_Witness ==
    /\ last_op = "clear_m"
    /\ m_plus = Zero
    /\ memory["M"] = Num(7)
    /\ memory["A"] = Num(8)

(* ------------------------------ the logarithms ------------------------- *)

\* the largest magnitude of an integer argument
MaxLogArg == 8

LogFuncs == { <<"l", "o", "g">>, <<"l", "o", "g", "sub2">>, <<"l", "n">> }

\* arguments written with a decimal point, and their values
LogDecimals ==
    { <<<<"0", ".", "5">>, Fin(1, 2)>>,
      <<<<"0", ".", "2", "5">>, Fin(1, 4)>>,
      <<<<"0", ".", "0">>, Zero>>,
      <<<<"-", "0", ".", "5">>, Fin(-1, 2)>> }

\* f(x) for the text x of a number
LogText(f, x) == f \o <<"(">> \o x \o <<")">>

NextLog ==
    \/ Fresh /\ \E f \in LogFuncs, n \in (-MaxLogArg)..MaxLogArg :
          EvaluateBuilt(<<"log", f, Num(n)>>, LogText(f, int_text(n)))
    \/ Fresh /\ \E f \in LogFuncs, x \in LogDecimals :
          EvaluateBuilt(<<"log", f, x[2]>>, LogText(f, x[1]))

SpecLog == Init /\ [][NextLog]_vars

\* C17: each of log, log2 and ln applied to a parenthesized number x fails
\* with "Math ERROR" when x <= 0 and returns a finite value when x > 0.
C17_LogDomain ==
    Built("log") =>
        IF Le(fn_in[3], Zero)
        THEN last_result = Err("Math ERROR")
        ELSE /\ last_result.kind = "ok"
             /\ ~is_nan(last_result.val)
             /\ ~is_infinite(last_result.val)

(* ------------------------- inverse sine and cosine --------------------- *)

\* the largest magnitude of an integer argument
MaxAsinArg == 3

AsinFuncs == { <<"a", "s", "i", "n">>, <<"a", "c", "o", "s">> }

\* arguments written with a decimal point, and their values
AsinDecimals ==
    { <<<<"0", ".", "5">>, Fin(1, 2)>>,
      <<<<"-", "0", ".", "5">>, Fin(-1, 2)>>,
      <<<<"1", ".", "0">>, Num(1)>>,
      <<<<"1", ".", "5">>, Fin(3, 2)>>,
      <<<<"-", "1", ".", "2", "5">>, Fin(-5, 4)>> }

NextAsin ==
    \/ last_op # "evaluate" /\ CycleAngle
    \/ last_op # "evaluate"
          /\ \E f \in AsinFuncs, n \in (-MaxAsinArg)..MaxAsinArg :
                EvaluateBuilt(<<"asin", f, Num(n)>>, LogText(f, int_text(n)))
    \/ last_op # "evaluate"
          /\ \E f \in AsinFuncs, x \in AsinDecimals :
                EvaluateBuilt(<<"asin", f, x[2]>>, LogText(f, x[1]))

SpecAsin == Init /\ [][NextAsin]_vars

\* C18: in every angle mode asin(x) and acos(x) fail with "Math ERROR" when
\* |x| > 1 and succeed when |x| <= 1, the test being made on the argument as
\* written and not on its conversion to radians; asin(1) in Degrees is 90.
C18_InverseTrigDomain ==
    Built("asin") =>
        /\ IF Lt(Num(1), FAbs(fn_in[3]))
           THEN last_result = Err("Math ERROR")
           ELSE last_result.kind = "ok"
        /\ (fn_in[2] = <<"a", "s", "i", "n">> /\ fn_in[3] = Num(1)
                /\ angle = "Degrees")
              => last_result = Ok(Num(90))

\* asin(2) was rejected in Gradians, where 2 converted to radians is below 1
C18_Witness ==
    /\ Built("asin")
    /\ fn_in[3] = Num(2)
    /\ angle = "Gradians"
    /\ last_result = Err("Math ERROR")

(* ------------------------- the function vocabulary --------------------- *)

\* tokenize(input, self.ans, &self.memory)
ApplyTokenize(input) ==
    /\ fn_in' = <<"tokenize", input>>
    /\ UNCHANGED app
    /\ fn_out' = tokenize(input, ans, memory)
    /\ last_op' = "tokenize"
    /\ UNCHANGED <<engine_vars, overflow_checks, last_expr, last_result, log, fn_acc>>

\* what follows the name: nothing, an argument, and the letters that make a
\* shorter name a longer one
FuncTails ==
    { <<>>,
      <<"(", "1", ")">>,
      <<"h">>,
      <<"h", "(", "1", ")">>,
      <<"sub2", "(", "1", "8", ")">>,
      <<"(", "5", ",", "2", ")">> }

NextFunc ==
    \/ Fresh /\ \E j \in 1..Len(funcs), tail \in FuncTails :
          ApplyTokenize(funcs[j].chars \o tail)

SpecFunc == Init /\ [][NextFunc]_vars

\* the names of the vocabulary that the input starts with
Matching(input) == { j \in 1..Len(funcs) : starts_with(input, 0, funcs[j].chars) }

\* the longest of them
Longest(input) ==
    CHOOSE j \in Matching(input) :
        \A k \in Matching(input) : Len(funcs[k].chars) <= Len(funcs[j].chars)

IsProperPrefix(s, t) == Len(s) < Len(t) /\ SubSeq(t, 1, Len(s)) = s

\* C19: in the vocabulary, in its order, no name comes after a proper prefix
\* of it; so for an input that starts with a name of the vocabulary the
\* tokenizer's first token is the function token of the longest name the
\* input starts with (asinh, not asin; log2, not log).
C19_LongestNameWins ==
    /\ \A i, j \in 1..Len(funcs) :
          i < j => ~IsProperPrefix(funcs[i].chars, funcs[j].chars)
    /\ Built("tokenize") =>
          /\ first_func(fn_in[2], 0) = Longest(fn_in[2])
          /\ fn_out.kind = "ok" =>
                fn_out.tokens[1] = TFunc(funcs[Longest(fn_in[2])].name)

\* asinh(1) gave the token of asinh, where asin matches as well
C19_Witness ==
    /\ Built("tokenize")
    /\ fn_in[2] = <<"a", "s", "i", "n", "h", "(", "1", ")">>
    /\ Matching(fn_in[2]) = {1, 4}
    /\ fn_out.kind = "ok"
    /\ fn_out.tokens[1] = TFunc("asinh")

(* ----------------------- omitted closing parentheses ------------------- *)

\* the largest number of closing parentheses left out
MaxOmitted == 3

\* texts that end with one closing parenthesis or more
ParenTexts ==
    { <<"(", "2", "+", "3", ")">>,
      <<"(", "(", "2", "+", "3", ")", ")">>,
      <<"2", "*", "(", "3", "+", "4", ")">>,
      <<"(", "1", "+", "(", "2", "*", "(", "3", "+", "4", ")", ")", ")">>,
      <<"2", "^", "(", "1", "+", "2", ")">>,
      <<"-", "(", "2", ")">>,
      <<"(", "5", "/", "0", ")">>,
      <<"(", "3", "!", ")">>,
      <<"n", "C", "r", "(", "5", ",", "2", ")">>,
      <<"n", "P", "r", "(", "5", ",", "2", ")">>,
      <<"n", "C", "r", "(", "5", ",", "(", "1", "+", "1", ")", ")">>,
      <<"s", "i", "n", "(", "3", "0", ")">>,
      <<"a", "s", "i", "n", "(", "1", ")">>,
      <<"s", "q", "r", "t", "(", "(", "4", ")", ")">>,
      <<"a", "b", "s", "(", "-", "(", "3", ")", ")">>,
      <<"l", "o", "g", "(", "1", "0", "0", ")">>,
      <<"s", "q", "r", "t", "(", "n", "C", "r", "(", "4", ",", "(", "2", ")", ")", ")">> }

\* the number of closing parentheses that s ends with
RECURSIVE Trailing(_)
Trailing(s) ==
    IF s # <<>> /\ s[Len(s)] = ")"
    THEN 1 + Trailing(SubSeq(s, 1, Len(s) - 1))
    ELSE 0

\* s without its last k characters
Omit(s, k) == SubSeq(s, 1, Len(s) - k)

NextParen ==
    \/ last_op # "evaluate" /\ CycleAngle
    \/ last_op # "evaluate"
          /\ \E s \in ParenTexts : \E k \in 0..MaxOmitted :
                /\ k <= Trailing(s)
                /\ EvaluateBuilt(<<"paren", s, k>>, Omit(s, k))

SpecParen == Init /\ [][NextParen]_vars

\* C20: a text with some or all of its trailing closing parentheses left out
\* evaluates to what the text with all of them evaluates to, for parenthesized
\* sub-expressions and for calls of functions of one and of two arguments;
\* "(2+3" gives 5 and "nCr(5,2" gives 10.
C20_TrailingParenthesesOptional ==
    Built("paren") =>
        /\ last_result = evaluate_result(fn_in[2], Zero, NoMemory, angle, overflow_checks)
        /\ last_expr = <<"(", "2", "+", "3">> => last_result = Ok(Num(5))
        /\ last_expr = <<"n", "C", "r", "(", "5", ",", "2">> => last_result = Ok(Num(10))

\* sqrt(nCr(4,(2 with its three closing parentheses left out gave a value
C20_Witness ==
    /\ Built("paren")
    /\ fn_in[3] = 3
    /\ last_expr = <<"s", "q", "r", "t", "(", "n", "C", "r", "(", "4", ",", "(", "2">>
    /\ last_result.kind = "ok"

(* --------------------- evaluate, iteration by iteration ---------------- *)
(* evaluate(expr) in steps: fn_in holds the text, fn_acc the tokenizer       *)
(* between two iterations of its loop, fn_out the parser when it returned.  *)

TermExprs ==
    { <<>>,
      <<"2", "+", "3">>,
      <<"2", " ", "+", " ", "2">>,
      <<"s", "i", "n", "(", "3", "0", ")">>,
      <<"l", "o", "g", "sub2", "(", "8", ")">>,
      <<"n", "C", "r", "(", "5", ",", "2", ")">>,
      <<"A", "n", "s", "*", "pi">>,
      <<"A", "-", "e">>,
      <<"1", ".", "5", "e", "3">>,
      <<"1", ".", "2", ".", "3">>,
      <<"2", "#">>,
      <<"(">>,
      <<")">>,
      <<"-", "(", "2", "^", "3", ")", "%">>,
      <<"2", "+">>,
      <<"5", "!">>,
      <<"3", "5", "!">> }

\* evaluate(expr) is entered: let tokens = tokenize(expr, self.ans, &self.memory)
TokenizeStart(expr) ==
    /\ fn_in' = <<"evaluate", expr>>
    /\ UNCHANGED app
    /\ fn_acc' = [cur |-> Cursor(0, <<>>), iterations |-> 0]
    /\ fn_out' = NoResult
    /\ last_op' = "tokenize"
    /\ last_expr' = expr
    /\ UNCHANGED <<engine_vars, overflow_checks, last_result, log>>

\* the tokenizer is between two iterations of its loop
Tokenizing == last_op = "tokenize"

\* the tokenizer after an iteration that ended as s: evaluate returns the
\* error of an iteration that failed
TokenizeTo(s) ==
    /\ fn_acc' = [cur |-> s, iterations |-> fn_acc.iterations + 1]
    /\ UNCHANGED app
    /\ IF s.kind = "err"
       THEN evaluate(last_expr, Err(s.msg)) /\ UNCHANGED <<fn_in, fn_out>>
       ELSE UNCHANGED <<engine_vars, overflow_checks, last_op, last_expr,
                        last_result, log, fn_in, fn_out>>

\* one iteration of while i < chars.len()
TokenizeStep ==
    /\ Tokenizing
    /\ fn_acc.cur.i < Len(last_expr)
    /\ TokenizeTo(tokenize_iteration(last_expr, fn_acc.cur.i, fn_acc.cur.tokens,
                                     ans, memory))

\* evaluate with the parser returned as pr
ParseTo(pr) ==
    /\ evaluate(last_expr, evaluate_checks(pr.res))
    /\ fn_out' = pr.p
    /\ UNCHANGED <<fn_in, fn_acc>>
    /\ UNCHANGED app

\* the loop is left: the tokens are parsed and evaluate returns
ParseStep ==
    /\ Tokenizing
    /\ ~(fn_acc.cur.i < Len(last_expr))
    /\ ParseTo(parse_expr(NewParser(fn_acc.cur.tokens, angle, overflow_checks)))

NextTerm ==
    \/ Fresh /\ \E expr \in TermExprs : TokenizeStart(expr)
    \/ TokenizeStep
    \/ ParseStep

SpecTerm == Init /\ [][NextTerm]_vars

\* evaluate was run in steps and the parser has returned
Parsed ==
    /\ fn_in # <<>> /\ fn_in[1] = "evaluate"
    /\ last_op = "evaluate"
    /\ fn_acc.cur.kind = "ok"

ResumeTails ==
    { <<"(">>,
      <<"(", "8", ")">>,
      <<"(", "-", "8", ")">>,
      <<"(", "5", ",", "2", ")">>,
      <<"(", "2", "+", "3", ")", "*", "4">>,
      <<"(", "(", "A", ")", ")">>,
      <<"(", "#", ")">> }

NextResume ==
    \/ Fresh /\ \E j \in 1..Len(funcs), s \in ResumeTails :
          ApplyTokenize(funcs[j].chars \o s)

SpecResume == Init /\ [][NextResume]_vars

\* what follows the longest name the input starts with
AfterName(input) ==
    SubSeq(input, Len(funcs[Longest(input)].chars) + 1, Len(input))

\* the function token of f followed by the tokens of s, or the error of s
FuncThen(f, s) ==
    IF s.kind = "ok" THEN TokOk(<<TFunc(f)>> \o s.tokens) ELSE s

\* C22: after the match of a function name scanning resumes at the character
\* that follows the name: for every name f of the vocabulary and every text s
\* that begins with an opening parenthesis, tokenize(f s) is the function
\* token of f followed by exactly the tokens of s (and fails as s fails).
C22_ScanResumesAfterName ==
    Built("tokenize") =>
        fn_out = FuncThen(funcs[Longest(fn_in[2])].name,
                          tokenize(AfterName(fn_in[2]), ans, memory))

(* --------------------- tokens the parser leaves behind ----------------- *)

\* the largest number of successful evaluations
MaxLeftEvals == 2

\* texts with a second number, a second power, a closing parenthesis that
\* closes nothing, and texts the parser takes whole or fails on
LeftExprs ==
    { <<"2", " ", "3">>,
      <<"2", " ", "3", " ", "4">>,
      <<"2", "^", "3", "^", "2">>,
      <<"2", ")">>,
      <<"s", "i", "n", "(", "3", "0", ")", ")">>,
      <<"2", "(", "3", ")">>,
      <<"4", "!", "5">>,
      <<"2", "+", "3">>,
      <<"(", "2", "+", "3", ")", "*", "4">>,
      <<"A", "n", "s", "+", "1">>,
      <<"1", "+">>,
      <<"2", "#">>,
      <<>> }

\* evaluate(expr) with the parser returned as pr
ParsedTo(expr, pr) ==
    /\ evaluate(expr, evaluate_checks(pr.res))
    /\ fn_out' = pr.p

\* evaluate(expr) with the tokenizer returned as t
TokenizedTo(expr, t) ==
    IF t.kind = "err"
    THEN evaluate(expr, Err(t.msg)) /\ fn_out' = NewParser(<<>>, angle, overflow_checks)
    ELSE ParsedTo(expr, parse_expr(NewParser(t.tokens, angle, overflow_checks)))

\* CalcEngine::evaluate(expr), the parser it used noted
EvaluateParsed(expr) ==
    /\ Alive
    /\ fn_in' = <<"evaluate", expr>>
    /\ UNCHANGED app
    /\ TokenizedTo(expr, tokenize(expr, ans, memory))
    /\ UNCHANGED fn_acc

NextLeft ==
    \/ Len(log) < MaxLeftEvals /\ \E expr \in LeftExprs : EvaluateParsed(expr)

SpecLeft == Init /\ [][NextLeft]_vars

\* the parser of the last evaluation stopped before the end of its tokens
TokensLeft == Built("evaluate") /\ fn_out.pos < Len(fn_out.tokens)

\* C23: an evaluation whose parser leaves tokens behind after its top-level
\* expression returns no value and leaves the last answer and the history
\* as they were.
C23_NoValueWithTokensLeft ==
    [][(last_op' = "evaluate" /\ TokensLeft')
          => /\ last_result'.kind # "ok"
             /\ ans' = ans
             /\ history' = history]_vars

(* ------------------- the last answer and the history ------------------- *)

\* C24: in every reachable state, if the history is not empty the result of
\* its newest entry equals the last answer, and if the history is empty the
\* last answer is 0.
C24_NewestEntryIsAns ==
    /\ history # <<>> => history[Len(history)][2] = ans
    /\ history = <<>> => ans = Zero

\* the history is full, its oldest entries are gone, and the evaluation that
\* came last has failed
C24_Witness ==
    /\ Len(log) > HistoryCap
    /\ Len(history) = HistoryCap
    /\ last_op = "evaluate"
    /\ last_result.kind = "err"
    /\ history[Len(history)] = log[Len(log)]
    /\ ans # Zero

(* ------------------------ the keys of the calculator ------------------- *)

\* the longest display line a key appends to
MaxInput == 3

\* the largest number of successful evaluations
MaxUiEvals == 1

\* the engine's messages as texts
DivZeroText == MathErrorText \o <<" ", "(", "d", "i", "v", "/", "0", ")">>

OverflowText == MathErrorText \o <<" ", "(", "o", "v", "e", "r", "f", "l", "o", "w", ")">>

\* format!("Unknown character: '{}'", c)
UnknownCharacterText(c) ==
    <<"U", "n", "k", "n", "o", "w", "n", " ", "c", "h", "a", "r", "a", "c", "t", "e", "r", ":", " ", "'">> \o <<c, "'">>

\* {:?} of a token without a value
variant_text(t) ==
    CASE t = "Plus" -> <<"P", "l", "u", "s">>
      [] t = "Minus" -> <<"M", "i", "n", "u", "s">>
      [] t = "Mul" -> <<"M", "u", "l">>
      [] t = "Div" -> <<"D", "i", "v">>
      [] t = "Pow" -> <<"P", "o", "w">>
      [] t = "RParen" -> <<"R", "P", "a", "r", "e", "n">>
      [] t = "Comma" -> <<"C", "o", "m", "m", "a">>
      [] t = "Factorial" -> <<"F", "a", "c", "t", "o", "r", "i", "a", "l">>
      [] t = "Percent" -> <<"P", "e", "r", "c", "e", "n", "t">>

\* {:?} of what the last call of next returned in the parser p
debug_text(p) ==
    IF p.nexts > p.pos THEN <<"N", "o", "n", "e">>
    ELSE <<"S", "o", "m", "e", "(">> \o variant_text(p.tokens[p.pos].t) \o <<")">>

\* format!("Unexpected token: {:?}", other)
UnexpectedTokenText(p) ==
    <<"U", "n", "e", "x", "p", "e", "c", "t", "e", "d", " ", "t", "o", "k", "e", "n", ":", " ">> \o debug_text(p)

\* the index of the character the tokenizer fails at
RECURSIVE failed_at(_, _, _, _)
failed_at(chars, s, a, mem) ==
    IF s.kind = "err" THEN s.i
    ELSE failed_at(chars, tokenize_iteration(chars, s.i, s.tokens, a, mem), a, mem)

\* the text of the message of the failed evaluate(expr) whose parser ended as p
message_text(expr, r, p, a, mem) ==
    CASE r.msg = "Math ERROR" -> MathErrorText
      [] r.msg = "Math ERROR (div/0)" -> DivZeroText
      [] r.msg = "Math ERROR (overflow)" -> OverflowText
      [] r.msg = "Unexpected token" -> UnexpectedTokenText(p)
      [] r.msg = "Unknown character" ->
            UnknownCharacterText(expr[failed_at(expr, Cursor(0, <<>>), a, mem) + 1])

\* input.replace("×", "*").replace("÷", "/").replace("−", "-"); the last
\* replace, of "×10^x", finds no × left
replaced(input) ==
    [j \in 1..Len(input) |->
        CASE input[j] = "times" -> "*"
          [] input[j] = "div" -> "/"
          [] input[j] = "minus" -> "-"
          [] OTHER -> input[j]]

\* CasioApp::append(s)
append(a, s) ==
    IF a.input = <<"0">> /\ s # <<>> /\ is_ascii_digit(s[1])
    THEN [a EXCEPT !.input = s]
    ELSE IF a.error
    THEN [a EXCEPT !.input = s, !.error = FALSE]
    ELSE [a EXCEPT !.input = a.input \o s]

\* the keys whose arm of handle_button calls append
AppendKeys == {"5", "0", "+", "div", "Ans", "x_sq"}

\* the text the arm of the key passes to append
appended(a, label) ==
    CASE label = "Ans" -> <<"A", "n", "s">>
      [] label = "x_sq" ->
            IF a.shift_mode THEN <<"^", "(", "0", ".", "5", ")">> ELSE <<"^", "2">>
      [] OTHER -> <<label>>

\* self.error = false, the first statement of handle_button
entered(a) == [a EXCEPT !.error = FALSE]

\* the arms of handle_button that leave the engine alone, from a = entered(app)
button(a, label) ==
    CASE label = "AC" ->
            [a EXCEPT !.input = <<"0">>, !.top_line = <<>>, !.shift_mode = FALSE,
                      !.alpha_mode = FALSE, !.hyp_mode = FALSE, !.error = FALSE]
      [] label = "DEL" ->
            IF str_len(a.input) > 1
            THEN [a EXCEPT !.input = SubSeq(a.input, 1, Len(a.input) - 1)]
            ELSE [a EXCEPT !.input = <<"0">>]
      [] label = "SHIFT" ->
            [a EXCEPT !.shift_mode = ~a.shift_mode, !.alpha_mode = FALSE]
      [] label = "x_sq" ->
            [append(a, appended(a, label)) EXCEPT !.shift_mode = FALSE]
      [] OTHER -> append(a, appended(a, label))

\* the arm "=" of handle_button with evaluate(expr) returned as r, its parser
\* ended as p
EqualsTo(a, expr, r, p) ==
    /\ evaluate(expr, r)
    /\ app' =
         CASE r.kind = "ok" ->
                [a EXCEPT !.top_line = a.input \o <<"=">>,
                          !.input = format_result(format, r.val),
                          !.shift_mode = FALSE, !.alpha_mode = FALSE, !.hyp_mode = FALSE]
           [] r.kind = "err" ->
                [a EXCEPT !.top_line = a.input,
                          !.input = message_text(expr, r, p, ans, memory),
                          !.error = TRUE,
                          !.shift_mode = FALSE, !.alpha_mode = FALSE, !.hyp_mode = FALSE]
           [] r.kind = "panic" -> a

EqualsParsed(a, expr, pr) == EqualsTo(a, expr, evaluate_checks(pr.res), pr.p)

EqualsTokenized(a, expr, t) ==
    IF t.kind = "err"
    THEN EqualsTo(a, expr, Err(t.msg), NewParser(<<>>, angle, overflow_checks))
    ELSE EqualsParsed(a, expr, parse_expr(NewParser(t.tokens, angle, overflow_checks)))

\* CasioApp::handle_button(label)
HandleButton(label) ==
    /\ Alive
    /\ fn_in' = <<"handle_button", label>>
    /\ UNCHANGED <<fn_acc, fn_out>>
    /\ IF label = "="
       THEN EqualsTokenized(entered(app), replaced(app.input),
                            tokenize(replaced(app.input), ans, memory))
       ELSE /\ app' = button(entered(app), label)
            /\ last_op' = "handle_button"
            /\ UNCHANGED <<engine_vars, overflow_checks, last_expr, last_result, log>>

\* the keys pressed: SHIFT is left out, x_sq after it gives a square root
Keys == AppendKeys \cup {"=", "AC", "DEL"}

NextUi ==
    \/ \E label \in Keys :
          /\ label \in AppendKeys => (Len(app.input) < MaxInput \/ app.error)
          /\ label = "=" => Len(log) < MaxUiEvals
          /\ HandleButton(label)

SpecUi == Init /\ [][NextUi]_vars

\* C25: after a failed evaluation has put its message on the display line, the
\* next key that appends text puts that text in the place of the message: it
\* is not added to the end of the message.
C25_KeyReplacesErrorMessage ==
    [][(app.error /\ fn_in' # <<>> /\ fn_in'[1] = "handle_button"
            /\ fn_in'[2] \in AppendKeys)
          => app'.input = appended(app, fn_in'[2])]_vars

====
